---- MODULE Spec2Model ----
(***************************************************************************)
(* A model of the gaiaoffline-ts ingestion pipeline: the catalog store     *)
(* (src/src/database.ts), the pipeline coordinator                         *)
(* (src/src/coordinator.ts) and the parallel downloader                    *)
(* (src/unnamed/part_002).                                                 *)
(***************************************************************************)
EXTENDS Integers, Sequences, FiniteSets, Bags, TLC

(***************************************************************************)
(* Bounds of the model                                                     *)
(***************************************************************************)
NumUrls == 3          \* number of distinct source files on the remote archive
MaxRuns == 2          \* populate commands issued against one store
MaxFileLimit == 1     \* largest --file-limit value tried
MaxParallel == 2      \* configured parallelism
MaxBatchLen == 2      \* longest record batch handed to insertGaiaRecords directly
MaxRows == 3          \* direct inserts stop when the catalog table has this many rows
MaxDlUrls == 4        \* longest URL list handed to downloadBatch and streamBatch
RemoteLen == 2        \* bytes of the remote file
MaxRestarts == 2      \* restarts of downloadFile followed within one call
MaxListLen == 1       \* longest URL list handed to initializeTracking directly,
                      \* the listing apart
csvChunkSize == 1     \* --csv-chunks value tried (rows per parser batch)
MaxFileRows == 4      \* most data rows of a file handed to streamGzippedCSV directly
MaxChunkSize == 3     \* largest chunkSize handed to streamGzippedCSV directly
MaxFilterLen == 3     \* longest record list handed to filterByMagnitude directly
MaxCommands == 3      \* populate commands of any kind issued against one store
MaxAvailableGB == 30  \* most available memory tried, in GB

URLs == 1..NumUrls
NoLimit == -1         \* fileLimit is undefined

Min(a, b) == IF a < b THEN a ELSE b

Range(s) == {s[k] : k \in DOMAIN s}

(***************************************************************************)
(* Record transform (src/src/utils.ts)                                     *)
(***************************************************************************)
\* config.zeropoints[0] and config.magnitudeLimit, in thousandths of a magnitude
zeropoint == 25687
magnitudeLimit == 16000

AllColumns == {"source_id", "ra", "phot_g_mean_flux"}

\* the values a parsed field can hold
Undefined == [type |-> "undefined"]
Null == [type |-> "null"]
Str(s) == [type |-> "string", value |-> s]
Num(n) == [type |-> "number", value |-> n]

\* !v
Falsy(v) ==
  \/ v.type \in {"undefined", "null"}
  \/ v.type = "string" /\ v.value = ""
  \/ v.type = "number" /\ v.value = 0

\* a parsed row of a source file
Rec(id, flux) ==
  [source_id |-> id, ra |-> 10 * id, phot_g_mean_flux |-> Num(flux)]

\* floor(log10(f)) for f >= 1; exact on the powers of ten the model uses
RECURSIVE Log10(_)
Log10(f) == IF f < 10 THEN 0 ELSE 1 + Log10(f \div 10)

\* zp - 2.5 * Math.log10(flux), in thousandths of a magnitude
Magnitude(flux, zp) == zp - 2500 * Log10(flux)

\* record.phot_g_mean_flux
Flux(record) ==
  IF "phot_g_mean_flux" \in DOMAIN record THEN record.phot_g_mean_flux
  ELSE Undefined

\* a filter that keeps the records at the limit
KeepRecordAtLimit(record, limit, zp) ==
  LET flux == Flux(record)
  IN  IF Falsy(flux) \/ flux.value <= 0 THEN FALSE
      ELSE Magnitude(flux.value, zp) <= limit

\* the callback of records.filter
KeepRecord(record, limit, zp) ==
  LET flux == Flux(record)
  IN  IF Falsy(flux) \/ flux.value <= 0 THEN FALSE
      ELSE Magnitude(flux.value, zp) < limit

FilterByMagnitude(records, limit, zp) ==
  LET Keep(record) == KeepRecord(record, limit, zp)
  IN  SelectSeq(records, Keep)

\* the parser handing out batches at every row
ParseRowsUnbatched(rows, columnsToKeep, chunkSize, chunk, yielded) ==
  [k \in DOMAIN rows |->
     <<[c \in columnsToKeep \cap DOMAIN rows[k] |-> rows[k][c]]>>]

\* the loop of streamGzippedCSV over the data rows: chunk is the batch being
\* filled, yielded the batches handed out so far
RECURSIVE ParseRows(_, _, _, _, _)
ParseRows(rows, columnsToKeep, chunkSize, chunk, yielded) ==
  IF rows = <<>>
    THEN IF Len(chunk) > 0 THEN Append(yielded, chunk) ELSE yielded
    ELSE LET recordObj == [c \in columnsToKeep \cap DOMAIN Head(rows) |->
                            Head(rows)[c]]
             filled == Append(chunk, recordObj)
         IN  IF Len(filled) >= chunkSize
               THEN ParseRows(Tail(rows), columnsToKeep, chunkSize, <<>>,
                              Append(yielded, filled))
               ELSE ParseRows(Tail(rows), columnsToKeep, chunkSize, filled,
                              yielded)

\* the batches streamGzippedCSV yields for a file: its first line is the
\* header, the others are the data rows
StreamGzippedCSV(lines, columnsToKeep, chunkSize) ==
  IF lines = <<>> THEN <<>>
  ELSE ParseRows(Tail(lines), columnsToKeep, chunkSize, <<>>, <<>>)

\* the column projection of the streaming parser
Project(record, cols) == [c \in cols |-> record[c]]

(***************************************************************************)
(* State                                                                   *)
(***************************************************************************)
VARIABLES
  \* configuration and remote archive (fixed during a behaviour)
  config,          \* [maxParallelDownloads, storedColumns, pipeline]
  listing,         \* the URLs getCSVUrls returns, in order
  content,         \* content[u]: the data rows of remote file u
  \* the persistent store
  tracking,        \* file_tracking_gaiadr3: URL -> status, "absent" = no row
  gaiadr3,         \* the catalog table, a bag of rows
  \* one run of populateGaiaDR3
  pc,              \* position of the coordinator
  fileLimit,       \* argument of populateGaiaDR3
  pendingUrls,
  i,               \* loop offset of processBatchedPipeline
  batchUrls,
  downloadResults,
  processResults,
  allRecords,
  j,               \* index of the per-result loops
  chunk,           \* processCSVFile: parser batches of the file consumed so far
  totalInserted,   \* processCSVFile: its running count
  stats,
  runs,            \* populate commands started so far
  \* observations of the current run
  startStatus,     \* tracking table when the run started
  handed,          \* URLs handed to the downloader in this run
  parsed,          \* URLs parsed in this run
  inserted,        \* URLs whose rows were part of a bulk insert in this run
  interrupted,     \* URLs of batches that were in flight when a run crashed
  finalization,    \* calls of createIndices, optimize and printSummary in this
                   \* run, and the maintenance errors met
  \* direct use of the store
  storeCall,       \* the last GaiaDatabase method called and its arguments
  \* one ParallelDownloader and the server it talks to
  parallelLimit,
  serves,          \* serves[u]: how the server treats requests for URL u
  dlMethod,        \* the batch method in progress
  dlUrls,          \* its argument
  dlI,             \* loop offset of downloadBatch
  transfer,        \* transfer[k]: queued, inflight or settled, per position of dlUrls
  attempt,         \* attempt[k]: loop counter of streamDownload
  dlResults,       \* results pushed so far; the resolved value at the end
  dlPc,            \* idle, running, resolved or rejected
  \* one call of downloadFile and the file it writes
  disk,            \* the file at filePath: [exists, bytes]
  dfPc,            \* position of downloadFile
  existingSize,
  rangeHeader,     \* offset of the Range header of the last request
  body,            \* bytes of the response body not read yet
  downloadedBytes,
  totalBytes,
  progress,        \* the progress entry of the URL
  restarts,        \* depth of the recursion of downloadFile
  dfResult,
  saw416,          \* the call has received a 416
  staleKept,       \* the last Deno.remove after a 416 failed
  lastResponse,    \* the last response the call has received
  \* one call of a query or of a function of the record transform
  fnCall,          \* its name and arguments
  fnResult,        \* what it returned
  \* the crossmatch and photometry datasets and the populate commands
  tmass_xmatch,    \* the crossmatch table, a set of rows
  tmass,           \* the photometry table, a set of rows
  trackingXmatch,  \* file_tracking_tmass_xmatch
  trackingTmass,   \* file_tracking_tmass
  cmd,             \* the populate command in progress: [stages, k]
  commands,        \* populate commands issued so far
  gaiaPopulated    \* a run of populateGaiaDR3 has gone through its batches

coordVars == <<config, listing, content, tracking, gaiadr3, pc, fileLimit,
               pendingUrls, i, batchUrls, downloadResults, processResults,
               allRecords, j, chunk, totalInserted, stats, runs, startStatus,
               handed, parsed, inserted, interrupted, finalization>>

\* the variables of one run of the coordinator
runVars == <<pc, fileLimit, pendingUrls, i, batchUrls, downloadResults,
             processResults, allRecords, j, chunk, totalInserted, stats, runs,
             startStatus, handed, parsed, inserted, interrupted, finalization>>

dlVars == <<parallelLimit, serves, dlMethod, dlUrls, dlI, transfer, attempt,
            dlResults, dlPc>>

dfVars == <<disk, dfPc, existingSize, rangeHeader, body, downloadedBytes,
            totalBytes, progress, restarts, dfResult, saw416, staleKept,
            lastResponse>>

fnVars == <<fnCall, fnResult>>

tmVars == <<tmass_xmatch, tmass, trackingXmatch, trackingTmass, cmd, commands,
            gaiaPopulated>>

nonCoordVars == <<storeCall, dlVars, dfVars, fnVars, tmVars>>
nonStoreVars == <<runVars, dlVars, dfVars, fnVars, tmVars>>
nonDlVars == <<coordVars, storeCall, dfVars, fnVars, tmVars>>
nonDfVars == <<coordVars, storeCall, dlVars, fnVars, tmVars>>
nonFnVars == <<coordVars, storeCall, dlVars, dfVars, tmVars>>
nonTmVars == <<config, listing, content, runVars, storeCall, dlVars, dfVars,
               fnVars>>

vars == <<coordVars, nonCoordVars>>

(***************************************************************************)
(* Catalog store (src/src/database.ts)                                     *)
(***************************************************************************)
EmptyTracking == [u \in URLs |-> "absent"]

\* CREATE TABLE gaiadr3: source_id is the primary key only if it is a stored column
HasPrimaryKey == "source_id" \in config.storedColumns

\* INSERT OR REPLACE whatever the mode
TrackingInsertReplace(table, url, overwrite) == [table EXCEPT ![url] = "pending"]

\* one INSERT OR IGNORE / INSERT OR REPLACE of initializeTracking
TrackingInsert(table, url, overwrite) ==
  IF table[url] = "absent" \/ overwrite
    THEN [table EXCEPT ![url] = "pending"]
    ELSE table

RECURSIVE InitializeTracking(_, _, _)
InitializeTracking(table, urls, overwrite) ==
  IF urls = <<>> THEN table
  ELSE InitializeTracking(TrackingInsert(table, Head(urls), overwrite),
                          Tail(urls), overwrite)

\* a status test that also skips failed files
IsFileProcessedOrFailed(table, url) == table[url] \in {"completed", "failed"}

IsFileProcessed(table, url) == table[url] = "completed"

\* UPDATE ... WHERE url = ?: no row, no change
MarkFileCompleted(table, url) ==
  IF table[url] = "absent" THEN table ELSE [table EXCEPT ![url] = "completed"]

\* an UPDATE that writes the wrong status
MarkFileFailedAsCompleted(table, url) ==
  IF table[url] = "absent" THEN table ELSE [table EXCEPT ![url] = "completed"]

MarkFileFailed(table, url) ==
  IF table[url] = "absent" THEN table ELSE [table EXCEPT ![url] = "failed"]

\* one INSERT OR IGNORE INTO gaiadr3
InsertRow(table, record) ==
  LET row == Project(record, config.storedColumns)
  IN  IF HasPrimaryKey /\ \E r \in BagToSet(table) : r.source_id = row.source_id
        THEN table
        ELSE table (+) SetToBag({row})

RECURSIVE InsertAll(_, _)
InsertAll(table, records) ==
  IF records = <<>> THEN table
  ELSE InsertAll(InsertRow(table, Head(records)), Tail(records))

\* insertGaiaRecords: the table after the call and the returned count
InsertGaiaRecords(table, records) ==
  IF Len(records) = 0
    THEN [table |-> table, insertedCount |-> 0]
    ELSE [table |-> InsertAll(table, records), insertedCount |-> Len(records)]

(***************************************************************************)
(* Pipeline coordinator (src/src/coordinator.ts)                           *)
(***************************************************************************)
\* a file of which one row survives the magnitude filter, and one of which
\* none does
BrightFile(u) == <<Rec(2 * u - 1, 10000), Rec(2 * u, 1000)>>
FaintFile(u) == <<Rec(2 * u - 1, 1000), Rec(2 * u, 0)>>

\* the archive contents tried: every file has a surviving row, or only the
\* first file has
BrightArchive == [u \in URLs |-> BrightFile(u)]
FaintArchive == [u \in URLs |-> IF u = 1 THEN BrightFile(u) ELSE FaintFile(u)]

\* the listing names every file once, or repeats its last link
PlainListing == [k \in 1..NumUrls |-> k]
RepeatListing == [k \in 1..NumUrls |-> IF k = NumUrls THEN NumUrls - 1 ELSE k]
\* a listing that lacks the last file of the archive
ShortListing == [k \in 1..NumUrls - 1 |-> k]

\* streamAndFilterCSV: parse with the column projection, then filter
StreamAndFilterCSV(u) ==
  FilterByMagnitude([k \in DOMAIN content[u] |->
                       Project(content[u][k], config.storedColumns)],
                    magnitudeLimit, zeropoint)

\* The set-ups tried.  pipeline: bulk insert per batch (processBatchedPipeline
\* with streamAndFilterCSV) or insert per parser batch (processBatchedPipeline
\* with processCSVFile).
Setups ==
  { [pipeline |-> "batched", listing |-> PlainListing, content |-> BrightArchive],
    [pipeline |-> "batched", listing |-> PlainListing, content |-> FaintArchive],
    [pipeline |-> "batched", listing |-> RepeatListing, content |-> BrightArchive],
    [pipeline |-> "perFile", listing |-> ShortListing, content |-> BrightArchive] }

ZeroStats == [totalFiles |-> 0, completedFiles |-> 0, failedFiles |-> 0,
              totalRecords |-> 0]

DownloadError == "HTTP 404: Not Found"
ParseError == "corrupt gzip stream"

\* the statements of createIndices
NumIndices == 9

\* nothing of the finalization of the run has been called
NotFinalized == [createIndices |-> 0, optimize |-> 0, printSummary |-> 0,
                 indexStatements |-> 0, indexErrors |-> 0,
                 optimizeError |-> FALSE]

\* urls.filter(url => !isFileProcessed(url))
RECURSIVE FilterPending(_, _)
FilterPending(table, urls) ==
  IF urls = <<>> THEN <<>>
  ELSE IF IsFileProcessed(table, Head(urls))
         THEN FilterPending(table, Tail(urls))
         ELSE <<Head(urls)>> \o FilterPending(table, Tail(urls))

\* Array.prototype.slice(from, to) on a sequence, 0-based, end exclusive
Slice(s, from, to) == SubSeq(s, from + 1, Min(to, Len(s)))

\* no run of the coordinator has started
RunIdle ==
  /\ pc = "idle"
  /\ fileLimit = NoLimit
  /\ pendingUrls = <<>>
  /\ i = 0
  /\ batchUrls = <<>>
  /\ downloadResults = <<>>
  /\ processResults = <<>>
  /\ allRecords = <<>>
  /\ j = 1
  /\ chunk = 0
  /\ totalInserted = 0
  /\ stats = ZeroStats
  /\ runs = 0
  /\ startStatus = EmptyTracking
  /\ handed = {}
  /\ parsed = {}
  /\ inserted = {}
  /\ interrupted = {}
  /\ finalization = NotFinalized

\* new GaiaDatabase(config), initialize(), createTrackingTable()
StoreEmpty ==
  /\ tracking = EmptyTracking
  /\ gaiadr3 = EmptyBag

NoCall == [op |-> "none"]

\* no populate command is in progress
NoCommand == [stages |-> <<>>, k |-> 0]

\* the crossmatch and photometry datasets have not been touched
TmQuiet ==
  /\ tmass_xmatch = {}
  /\ tmass = {}
  /\ trackingXmatch = [f \in {} |-> "absent"]
  /\ trackingTmass = [f \in {} |-> "absent"]
  /\ cmd = NoCommand
  /\ commands = 0
  /\ gaiaPopulated = FALSE

\* no query and no function has been called on its own
FnQuiet ==
  /\ fnCall = NoCall
  /\ fnResult = NoCall

\* populateGaiaDR3 up to the call of processBatchedPipeline
StartRun(limit) ==
  /\ pc \in {"idle", "done", "aborted"}
  /\ runs < MaxRuns
  /\ IF config.pipeline = "batched"
       THEN LET seeded == InitializeTracking(tracking, listing, FALSE)
                pending == FilterPending(seeded, listing)
                sliced == IF limit # NoLimit /\ limit # 0
                            THEN Slice(pending, 0, limit) ELSE pending
            IN  /\ tracking' = seeded
                /\ pendingUrls' = sliced
                /\ stats' = [ZeroStats EXCEPT
                               !.totalFiles = IF limit # NoLimit THEN limit
                                              ELSE Len(listing)]
       ELSE LET urls == IF limit # NoLimit /\ limit # 0
                          THEN Slice(listing, 0, limit) ELSE listing
                seeded == InitializeTracking(tracking, urls, FALSE)
            IN  /\ tracking' = seeded
                /\ pendingUrls' = FilterPending(seeded, urls)
                /\ stats' = [ZeroStats EXCEPT !.totalFiles = Len(urls)]
  /\ pc' = IF 0 < Len(pendingUrls') THEN "download" ELSE "finalize"
  /\ fileLimit' = limit
  /\ startStatus' = tracking
  /\ runs' = runs + 1
  /\ i' = 0
  /\ batchUrls' = <<>>
  /\ downloadResults' = <<>>
  /\ processResults' = <<>>
  /\ allRecords' = <<>>
  /\ j' = 1
  /\ chunk' = 0
  /\ totalInserted' = 0
  /\ handed' = {}
  /\ parsed' = {}
  /\ inserted' = {}
  /\ finalization' = NotFinalized
  /\ UNCHANGED <<config, listing, content, gaiadr3, interrupted>>
  /\ UNCHANGED nonCoordVars

\* downloader.downloadBatch(batchUrls) in file mode, downloader.streamBatch(batchUrls)
\* in streaming mode: one result per URL, each a success or a failure.  The two
\* branches of processBatchedPipeline build processResults in the same way.
DownloadBatch ==
  /\ pc = "download"
  /\ LET batch == Slice(pendingUrls, i, i + config.maxParallelDownloads)
     IN  /\ batchUrls' = batch
         /\ handed' = handed \cup Range(batch)
         /\ \E ok \in [DOMAIN batch -> BOOLEAN] :
              downloadResults' =
                [k \in DOMAIN batch |->
                   [url |-> batch[k], success |-> ok[k],
                    error |-> IF ok[k] THEN "" ELSE DownloadError]]
  /\ pc' = IF config.pipeline = "batched" THEN "process" ELSE "file"
  /\ j' = 1
  /\ UNCHANGED <<config, listing, content, tracking, gaiadr3, fileLimit,
                 pendingUrls, i, processResults, allRecords, chunk,
                 totalInserted, stats, runs, startStatus, parsed, inserted,
                 interrupted, finalization>>
  /\ UNCHANGED nonCoordVars

\* a callback without its try/catch: a parse error rejects the promise
ProcessOneNoCatch(result, parseOk) ==
  IF ~result.success
    THEN [url |-> result.url, hasRecords |-> FALSE, records |-> <<>>,
          error |-> result.error, rejected |-> FALSE]
  ELSE IF IsFileProcessed(tracking, result.url)
    THEN [url |-> result.url, hasRecords |-> TRUE, records |-> <<>>,
          error |-> "", rejected |-> FALSE]
  ELSE IF parseOk
    THEN [url |-> result.url, hasRecords |-> TRUE,
          records |-> StreamAndFilterCSV(result.url), error |-> "",
          rejected |-> FALSE]
  ELSE [url |-> result.url, hasRecords |-> FALSE, records |-> <<>>,
        error |-> ParseError, rejected |-> TRUE]

\* the result of the map callback for one download result; parseOk is the
\* outcome of decompressing and parsing the file, rejected says that the
\* promise of the callback rejects instead of resolving
ProcessOne(result, parseOk) ==
  IF ~result.success
    THEN [url |-> result.url, hasRecords |-> FALSE, records |-> <<>>,
          error |-> result.error, rejected |-> FALSE]
  ELSE IF IsFileProcessed(tracking, result.url)
    THEN [url |-> result.url, hasRecords |-> TRUE, records |-> <<>>,
          error |-> "", rejected |-> FALSE]
  ELSE IF parseOk
    THEN [url |-> result.url, hasRecords |-> TRUE,
          records |-> StreamAndFilterCSV(result.url), error |-> "",
          rejected |-> FALSE]
  ELSE [url |-> result.url, hasRecords |-> FALSE, records |-> <<>>,
        error |-> ParseError, rejected |-> FALSE]

\* the files the map callback really parses
ParsedBy(results, parseOk) ==
  {results[k].url : k \in {n \in DOMAIN results :
      results[n].success /\ ~IsFileProcessed(tracking, results[n].url)}}

\* processResults = await Promise.all(processPromises)
ProcessBatch ==
  /\ pc = "process"
  /\ \E parseOk \in [DOMAIN downloadResults -> BOOLEAN] :
       /\ \A k \in DOMAIN downloadResults :
            (~downloadResults[k].success
               \/ IsFileProcessed(tracking, downloadResults[k].url))
              => parseOk[k]
       /\ processResults' = [k \in DOMAIN downloadResults |->
                               ProcessOne(downloadResults[k], parseOk[k])]
       /\ parsed' = parsed \cup ParsedBy(downloadResults, parseOk)
  /\ stats' = [stats EXCEPT !.failedFiles =
                 @ + Cardinality({k \in DOMAIN downloadResults :
                                    ~downloadResults[k].success})]
  /\ allRecords' = <<>>
  /\ j' = 1
  /\ pc' = IF \E k \in DOMAIN processResults' : processResults'[k].rejected
             THEN "aborted" ELSE "accumulate"
  /\ UNCHANGED <<config, listing, content, tracking, gaiadr3, fileLimit,
                 pendingUrls, i, batchUrls, downloadResults, chunk,
                 totalInserted, runs, startStatus, handed, inserted,
                 interrupted, finalization>>
  /\ UNCHANGED nonCoordVars

\* one iteration of the loop that accumulates records and marks failures
AccumulateStep ==
  /\ pc = "accumulate"
  /\ j <= Len(processResults)
  /\ LET result == processResults[j]
     IN  IF result.hasRecords
           THEN /\ allRecords' = allRecords \o result.records
                /\ UNCHANGED <<tracking, stats>>
         ELSE IF result.error # ""
           THEN /\ stats' = [stats EXCEPT !.failedFiles = @ + 1]
                /\ tracking' = MarkFileFailed(tracking, result.url)
                /\ UNCHANGED allRecords
         ELSE UNCHANGED <<allRecords, tracking, stats>>
  /\ j' = j + 1
  /\ pc' = IF j = Len(processResults) THEN "insert" ELSE "accumulate"
  /\ UNCHANGED <<config, listing, content, gaiadr3, fileLimit, pendingUrls, i,
                 batchUrls, downloadResults, processResults, chunk,
                 totalInserted, runs, startStatus, handed, parsed, inserted,
                 interrupted, finalization>>
  /\ UNCHANGED nonCoordVars

\* the files whose records are part of allRecords
Contributors ==
  {processResults[k].url : k \in {n \in DOMAIN processResults :
      processResults[n].hasRecords /\ processResults[n].records # <<>>}}

\* a loop body that goes on to the next batch without the status marks
AfterInsertNextBatch(n) == "progress"

\* if (allRecords.length > 0): the marks of the batch follow its bulk insert
AfterInsert(n) == IF n > 0 THEN "mark" ELSE "progress"

\* the single bulk insert of the batch
BulkInsert ==
  /\ pc = "insert"
  /\ IF Len(allRecords) > 0
       THEN LET r == InsertGaiaRecords(gaiadr3, allRecords)
            IN  /\ gaiadr3' = r.table
                /\ stats' = [stats EXCEPT !.totalRecords = @ + r.insertedCount]
                /\ inserted' = inserted \cup Contributors
       ELSE UNCHANGED <<gaiadr3, stats, inserted>>
  /\ pc' = AfterInsert(Len(allRecords))
  /\ j' = 1
  /\ UNCHANGED <<config, listing, content, tracking, fileLimit, pendingUrls, i,
                 batchUrls, downloadResults, processResults, allRecords, chunk,
                 totalInserted, runs, startStatus, handed, parsed, interrupted,
                 finalization>>
  /\ UNCHANGED nonCoordVars

\* one iteration of the loop that marks the successful files completed
MarkStep ==
  /\ pc = "mark"
  /\ j <= Len(processResults)
  /\ LET result == processResults[j]
     IN  IF result.hasRecords /\ Len(result.records) >= 0
           THEN /\ tracking' = MarkFileCompleted(tracking, result.url)
                /\ stats' = [stats EXCEPT !.completedFiles = @ + 1]
           ELSE UNCHANGED <<tracking, stats>>
  /\ j' = j + 1
  /\ pc' = IF j = Len(processResults) THEN "progress" ELSE "mark"
  /\ UNCHANGED <<config, listing, content, gaiadr3, fileLimit, pendingUrls, i,
                 batchUrls, downloadResults, processResults, allRecords, chunk,
                 totalInserted, runs, startStatus, handed, parsed, inserted,
                 interrupted, finalization>>
  /\ UNCHANGED nonCoordVars

\* the rows streamGzippedCSV yields for file u, before the filter
ParsedRows(u) ==
  [k \in DOMAIN content[u] |-> Project(content[u][k], config.storedColumns)]

\* the number of batches streamGzippedCSV yields for n rows
NumChunks(n) == (n + csvChunkSize - 1) \div csvChunkSize

\* the loop over downloadResults of the per-file pipeline, up to the first
\* await inside processCSVFile
FileStep ==
  /\ pc = "file"
  /\ j <= Len(downloadResults)
  /\ LET result == downloadResults[j]
         advance == /\ j' = j + 1
                    /\ pc' = IF j = Len(downloadResults) THEN "progress" ELSE "file"
     IN  IF ~result.success
           THEN /\ stats' = [stats EXCEPT !.failedFiles = @ + 1]
                /\ advance
                /\ UNCHANGED parsed
         ELSE IF IsFileProcessed(tracking, result.url)
           THEN /\ stats' = [stats EXCEPT !.completedFiles = @ + 1]
                /\ advance
                /\ UNCHANGED parsed
         ELSE /\ pc' = "chunks"
              /\ parsed' = parsed \cup {result.url}
              /\ UNCHANGED <<j, stats>>
  /\ chunk' = 0
  /\ totalInserted' = 0
  /\ UNCHANGED <<config, listing, content, tracking, gaiadr3, fileLimit,
                 pendingUrls, i, batchUrls, downloadResults, processResults,
                 allRecords, runs, startStatus, handed, inserted, interrupted,
                 finalization>>
  /\ UNCHANGED nonCoordVars

\* processCSVFile: the parser yields its next batch, which is filtered and inserted
ChunkInsert ==
  /\ pc = "chunks"
  /\ LET url == downloadResults[j].url
         rows == ParsedRows(url)
     IN  /\ chunk < NumChunks(Len(rows))
         /\ LET filteredRecords ==
                  FilterByMagnitude(Slice(rows, chunk * csvChunkSize,
                                          (chunk + 1) * csvChunkSize),
                                    magnitudeLimit, zeropoint)
                r == InsertGaiaRecords(gaiadr3, filteredRecords)
            IN  /\ gaiadr3' = r.table
                /\ totalInserted' = totalInserted + r.insertedCount
                /\ inserted' = IF filteredRecords = <<>> THEN inserted
                               ELSE inserted \cup {url}
  /\ chunk' = chunk + 1
  /\ UNCHANGED <<config, listing, content, tracking, pc, fileLimit, pendingUrls,
                 i, batchUrls, downloadResults, processResults, allRecords, j,
                 stats, runs, startStatus, handed, parsed, interrupted, finalization>>
  /\ UNCHANGED nonCoordVars

\* processCSVFile: the parser is exhausted, the file is marked completed
FileCompleted ==
  /\ pc = "chunks"
  /\ LET url == downloadResults[j].url
     IN  /\ chunk = NumChunks(Len(ParsedRows(url)))
         /\ tracking' = MarkFileCompleted(tracking, url)
  /\ stats' = [stats EXCEPT !.completedFiles = @ + 1,
                            !.totalRecords = @ + totalInserted]
  /\ j' = j + 1
  /\ pc' = IF j = Len(downloadResults) THEN "progress" ELSE "file"
  /\ UNCHANGED <<config, listing, content, gaiadr3, fileLimit, pendingUrls, i,
                 batchUrls, downloadResults, processResults, allRecords, chunk,
                 totalInserted, runs, startStatus, handed, parsed, inserted,
                 interrupted, finalization>>
  /\ UNCHANGED nonCoordVars

\* processCSVFile: the parser throws (corrupt gzip stream), the file is marked failed
FileFailed ==
  /\ pc = "chunks"
  /\ tracking' = MarkFileFailed(tracking, downloadResults[j].url)
  /\ stats' = [stats EXCEPT !.failedFiles = @ + 1]
  /\ j' = j + 1
  /\ pc' = IF j = Len(downloadResults) THEN "progress" ELSE "file"
  /\ UNCHANGED <<config, listing, content, gaiadr3, fileLimit, pendingUrls, i,
                 batchUrls, downloadResults, processResults, allRecords, chunk,
                 totalInserted, runs, startStatus, handed, parsed, inserted,
                 interrupted, finalization>>
  /\ UNCHANGED nonCoordVars

\* a loop that leaves for the finalization after every batch
AfterProgressFinalize(next, total) == "finalize"

\* the loop test i < urls.length: another batch, or back to populateGaiaDR3
AfterProgress(next, total) == IF next < total THEN "download" ELSE "finalize"

\* progress report at the end of the loop body, then the next iteration
NextBatch ==
  /\ pc = "progress"
  /\ i' = i + config.maxParallelDownloads
  /\ pc' = AfterProgress(i', Len(pendingUrls))
  /\ batchUrls' = <<>>
  /\ downloadResults' = <<>>
  /\ processResults' = <<>>
  /\ allRecords' = <<>>
  /\ j' = 1
  /\ UNCHANGED <<config, listing, content, tracking, gaiadr3, fileLimit,
                 pendingUrls, chunk, totalInserted, stats, runs, startStatus,
                 handed, parsed, inserted, interrupted, finalization>>
  /\ UNCHANGED nonCoordVars

\* the outcomes of the index statements tried: none fails, the first fails
IndexFailures == {{}, {1}}

\* createIndices: every statement runs inside its own try/catch
CreateIndices ==
  /\ pc = "finalize"
  /\ \E failing \in IndexFailures :
       finalization' = [finalization EXCEPT
                          !.createIndices = @ + 1,
                          !.indexStatements = NumIndices,
                          !.indexErrors = Cardinality(failing)]
  /\ pc' = "optimize"
  /\ UNCHANGED <<config, listing, content, tracking, gaiadr3, fileLimit,
                 pendingUrls, i, batchUrls, downloadResults, processResults,
                 allRecords, j, chunk, totalInserted, stats, runs, startStatus,
                 handed, parsed, inserted, interrupted>>
  /\ UNCHANGED nonCoordVars

\* optimize: VACUUM, then ANALYZE, outside any try/catch; an error of either
\* rejects populateGaiaDR3
Optimize ==
  /\ pc = "optimize"
  /\ \E outcome \in {"ok", "vacuumFails", "analyzeFails"} :
       /\ finalization' = [finalization EXCEPT
                             !.optimize = @ + 1,
                             !.optimizeError = (outcome # "ok")]
       /\ pc' = IF outcome = "ok" THEN "summary" ELSE "aborted"
  /\ UNCHANGED <<config, listing, content, tracking, gaiadr3, fileLimit,
                 pendingUrls, i, batchUrls, downloadResults, processResults,
                 allRecords, j, chunk, totalInserted, stats, runs, startStatus,
                 handed, parsed, inserted, interrupted>>
  /\ UNCHANGED nonCoordVars

\* printSummary, return this.stats
PrintSummary ==
  /\ pc = "summary"
  /\ finalization' = [finalization EXCEPT !.printSummary = @ + 1]
  /\ pc' = "done"
  /\ UNCHANGED <<config, listing, content, tracking, gaiadr3, fileLimit,
                 pendingUrls, i, batchUrls, downloadResults, processResults,
                 allRecords, j, chunk, totalInserted, stats, runs, startStatus,
                 handed, parsed, inserted, interrupted>>
  /\ UNCHANGED nonCoordVars

\* the process is killed: the store keeps what was committed, the rest is lost
Crash ==
  /\ pc \in {"download", "process", "accumulate", "insert", "mark", "file",
             "chunks", "progress"}
  /\ interrupted' = interrupted \cup Range(batchUrls)
  /\ pc' = "idle"
  /\ fileLimit' = NoLimit
  /\ pendingUrls' = <<>>
  /\ i' = 0
  /\ batchUrls' = <<>>
  /\ downloadResults' = <<>>
  /\ processResults' = <<>>
  /\ allRecords' = <<>>
  /\ j' = 1
  /\ chunk' = 0
  /\ totalInserted' = 0
  /\ stats' = ZeroStats
  /\ startStatus' = EmptyTracking
  /\ handed' = {}
  /\ parsed' = {}
  /\ inserted' = {}
  /\ finalization' = NotFinalized
  /\ UNCHANGED <<config, listing, content, tracking, gaiadr3, runs>>
  /\ UNCHANGED nonCoordVars

(***************************************************************************)
(* The store used directly: sequences of calls of GaiaDatabase methods     *)
(***************************************************************************)
RECURSIVE SeqsUpTo(_, _)
SeqsUpTo(S, n) ==
  IF n = 0 THEN {<<>>}
  ELSE LET shorter == SeqsUpTo(S, n - 1)
       IN  shorter \cup {Append(s, x) : s \in shorter, x \in S}

\* the column sets --columns can select: the default one, and one without source_id
ColumnChoices == {AllColumns, {"ra", "phot_g_mean_flux"}}

\* the URL lists initializeTracking is called with
UrlLists == SeqsUpTo(URLs, MaxListLen)
TrackingInputs == {listing} \cup UrlLists

\* the record batches insertGaiaRecords is called with: rows of the first file
\* and the first row of the second
StoreRecords == Range(ParsedRows(1)) \cup {ParsedRows(2)[1]}
Batches == SeqsUpTo(StoreRecords, MaxBatchLen)

CallInitializeTracking(urls, overwrite) ==
  /\ tracking' = InitializeTracking(tracking, urls, overwrite)
  /\ storeCall' = [op |-> "initializeTracking", urls |-> urls,
                   overwrite |-> overwrite]
  /\ UNCHANGED <<config, listing, content, gaiadr3>>
  /\ UNCHANGED nonStoreVars

CallMarkFileCompleted(url) ==
  /\ tracking' = MarkFileCompleted(tracking, url)
  /\ storeCall' = [op |-> "markFileCompleted", url |-> url]
  /\ UNCHANGED <<config, listing, content, gaiadr3>>
  /\ UNCHANGED nonStoreVars

CallMarkFileFailed(url) ==
  /\ tracking' = MarkFileFailed(tracking, url)
  /\ storeCall' = [op |-> "markFileFailed", url |-> url]
  /\ UNCHANGED <<config, listing, content, gaiadr3>>
  /\ UNCHANGED nonStoreVars

\* SUM(CASE WHEN status = ? THEN 1 ELSE 0 END): NULL over a table without rows
SumCase(table, status) ==
  IF \A u \in DOMAIN table : table[u] = "absent" THEN Null
  ELSE Num(Cardinality({u \in DOMAIN table : table[u] = status}))

\* getTrackingProgress: the aggregate query always yields one row, so the
\* fallback after ?? is never taken
GetTrackingProgress(table) ==
  [total |-> Num(Cardinality({u \in DOMAIN table : table[u] # "absent"})),
   completed |-> SumCase(table, "completed"),
   failed |-> SumCase(table, "failed"),
   pending |-> SumCase(table, "pending")]

CallGetTrackingProgress ==
  /\ storeCall' = [op |-> "getTrackingProgress",
                   progress |-> GetTrackingProgress(tracking)]
  /\ UNCHANGED <<config, listing, content, tracking, gaiadr3>>
  /\ UNCHANGED nonStoreVars

CallInsertGaiaRecords(records) ==
  /\ BagCardinality(gaiadr3) + Len(records) <= MaxRows
  /\ LET r == InsertGaiaRecords(gaiadr3, records)
     IN  /\ gaiadr3' = r.table
         /\ storeCall' = [op |-> "insertGaiaRecords", records |-> records,
                          insertedCount |-> r.insertedCount]
  /\ UNCHANGED <<config, listing, content, tracking>>
  /\ UNCHANGED nonStoreVars

(***************************************************************************)
(* Parallel downloader, batch methods (src/unnamed/part_002)               *)
(***************************************************************************)
maxRetries == 3

NetworkError == "connection reset by peer"
GatewayTimeout == "HTTP 504: Gateway Timeout"

\* how the server treats the requests for one URL: it serves the file, answers
\* 404, answers 504, resets every connection, or resets the first connection only
Behaviours == {"ok", "notFound", "gatewayTimeout", "reset", "flaky"}

\* what the attempt-th fetch (0-based) of a URL gives: "ok" or the message of
\* the error thrown
FetchOutcome(url, att) ==
  CASE serves[url] = "ok" -> "ok"
    [] serves[url] = "notFound" -> DownloadError
    [] serves[url] = "gatewayTimeout" -> GatewayTimeout
    [] serves[url] = "reset" -> NetworkError
    [] serves[url] = "flaky" -> IF att = 0 THEN NetworkError ELSE "ok"

\* error.message.toLowerCase(), word by word, for the messages of the model
MessageWords(message) ==
  CASE message = NetworkError -> <<"connection", "reset", "by", "peer">>
    [] message = DownloadError -> <<"http", "404:", "not", "found">>
    [] message = GatewayTimeout -> <<"http", "504:", "gateway", "timeout">>
    [] OTHER -> <<>>

\* the substrings isRetryableError looks for ("body from connection" holds
\* "connection")
RetryKeywords == {"connection", "timeout", "network", "econnreset", "enotfound",
                  "socket", "aborted"}

\* message.includes(keyword) for one of the keywords
IsRetryableError(message) ==
  \E k \in DOMAIN MessageWords(message) : MessageWords(message)[k] \in RetryKeywords

\* a retry loop that never gives up
LastAttemptNever(att) == FALSE

\* attempt === maxRetries
LastAttempt(att) == att = maxRetries

FilePath(url) == <<"tempDir", url>>

\* the URL lists the batch methods are called with: the first n links of the
\* archive, wrapping around when n exceeds the number of files
DlInputs == {[k \in 1..n |-> ((k - 1) % NumUrls) + 1] : n \in 0..MaxDlUrls}

\* downloadFile without its catch block: an error escapes as a rejection
DownloadFileNoCatch(url) ==
  LET outcome == FetchOutcome(url, 0)
  IN  IF outcome = "ok"
        THEN [state |-> "fulfilled",
              value |-> [url |-> url, filePath |-> FilePath(url), success |-> TRUE]]
        ELSE [state |-> "rejected", reason |-> outcome]

\* the promise downloadFile returns, as downloadBatch sees it: every error
\* thrown inside is caught and becomes a failure result
DownloadFile(url) ==
  LET outcome == FetchOutcome(url, 0)
  IN  IF outcome = "ok"
        THEN [state |-> "fulfilled",
              value |-> [url |-> url, filePath |-> FilePath(url), success |-> TRUE]]
        ELSE [state |-> "fulfilled",
              value |-> [url |-> url, success |-> FALSE, error |-> outcome]]

\* the result of the streamBatch callback for position k once streamDownload
\* has settled
StreamResult(k) ==
  LET outcome == FetchOutcome(dlUrls[k], attempt[k])
  IN  IF outcome = "ok"
        THEN [url |-> dlUrls[k], stream |-> <<"body", dlUrls[k]>>, success |-> TRUE]
        ELSE [url |-> dlUrls[k], success |-> FALSE, error |-> outcome]

\* the positions of the chunk downloadBatch is waiting for
ChunkPositions == {k \in DOMAIN dlUrls : dlI < k /\ k <= dlI + parallelLimit}

\* a barrier that opens when one transfer of the chunk has settled
ChunkAnySettled == \E k \in ChunkPositions : transfer[k] = "settled"

\* Promise.all(batch.map(...)) has settled
ChunkSettled == \A k \in ChunkPositions : transfer[k] = "settled"

\* no call of a batch method is open
DlIdle ==
  /\ dlMethod = "none"
  /\ dlUrls = <<>>
  /\ dlI = 0
  /\ transfer = <<>>
  /\ attempt = <<>>
  /\ dlResults = <<>>
  /\ dlPc = "idle"

\* a downloader nobody calls
DlQuiet ==
  /\ parallelLimit = 1
  /\ serves = [u \in URLs |-> "ok"]
  /\ DlIdle

\* downloadBatch(urls) up to its first await: the first chunk is started
CallDownloadBatch(urls) ==
  /\ dlPc = "idle"
  /\ dlMethod' = "downloadBatch"
  /\ dlUrls' = urls
  /\ dlI' = 0
  /\ dlResults' = <<>>
  /\ attempt' = [k \in DOMAIN urls |-> 0]
  /\ transfer' = [k \in DOMAIN urls |->
                    IF k <= parallelLimit THEN "inflight" ELSE "queued"]
  /\ dlPc' = IF 0 < Len(urls) THEN "running" ELSE "resolved"
  /\ UNCHANGED <<parallelLimit, serves>>
  /\ UNCHANGED nonDlVars

\* the promise of one downloadFile call settles
FinishFile(k) ==
  /\ dlPc = "running"
  /\ dlMethod = "downloadBatch"
  /\ transfer[k] = "inflight"
  /\ transfer' = [transfer EXCEPT ![k] = "settled"]
  /\ UNCHANGED <<parallelLimit, serves, dlMethod, dlUrls, dlI, attempt,
                 dlResults, dlPc>>
  /\ UNCHANGED nonDlVars

\* downloadBatch resumes after await Promise.all: the results of the chunk are
\* pushed in input order, the next chunk is started or the results returned
ChunkDone ==
  /\ dlPc = "running"
  /\ dlMethod = "downloadBatch"
  /\ ChunkSettled
  /\ LET batch == Slice(dlUrls, dlI, dlI + parallelLimit)
         promises == [k \in DOMAIN batch |-> DownloadFile(batch[k])]
     IN  IF \E k \in DOMAIN promises : promises[k].state = "rejected"
           THEN /\ dlPc' = "rejected"
                /\ UNCHANGED <<dlResults, dlI, transfer>>
           ELSE /\ dlResults' = dlResults \o
                                  [k \in DOMAIN batch |-> promises[k].value]
                /\ dlI' = dlI + parallelLimit
                /\ transfer' = [k \in DOMAIN dlUrls |->
                                  IF dlI' < k /\ k <= dlI' + parallelLimit
                                    THEN "inflight" ELSE transfer[k]]
                /\ dlPc' = IF dlI' < Len(dlUrls) THEN "running" ELSE "resolved"
  /\ UNCHANGED <<parallelLimit, serves, dlMethod, dlUrls, attempt>>
  /\ UNCHANGED nonDlVars

\* streamBatch(urls) up to its await: urls.map starts streamDownload for every URL
CallStreamBatch(urls) ==
  /\ dlPc = "idle"
  /\ dlMethod' = "streamBatch"
  /\ dlUrls' = urls
  /\ dlI' = 0
  /\ dlResults' = <<>>
  /\ attempt' = [k \in DOMAIN urls |-> 0]
  /\ transfer' = [k \in DOMAIN urls |-> "inflight"]
  /\ dlPc' = "running"
  /\ UNCHANGED <<parallelLimit, serves>>
  /\ UNCHANGED nonDlVars

\* one iteration of the retry loop of streamDownload for position k
StreamAttempt(k) ==
  /\ dlPc = "running"
  /\ dlMethod = "streamBatch"
  /\ transfer[k] = "inflight"
  /\ LET outcome == FetchOutcome(dlUrls[k], attempt[k])
     IN  IF outcome = "ok" \/ ~IsRetryableError(outcome) \/ LastAttempt(attempt[k])
           THEN /\ transfer' = [transfer EXCEPT ![k] = "settled"]
                /\ UNCHANGED attempt
           ELSE /\ attempt' = [attempt EXCEPT ![k] = @ + 1]
                /\ UNCHANGED transfer
  /\ UNCHANGED <<parallelLimit, serves, dlMethod, dlUrls, dlI, dlResults, dlPc>>
  /\ UNCHANGED nonDlVars

\* return await Promise.all(streamPromises)
StreamResolve ==
  /\ dlPc = "running"
  /\ dlMethod = "streamBatch"
  /\ \A k \in DOMAIN dlUrls : transfer[k] = "settled"
  /\ dlResults' = [k \in DOMAIN dlUrls |-> StreamResult(k)]
  /\ dlPc' = "resolved"
  /\ UNCHANGED <<parallelLimit, serves, dlMethod, dlUrls, dlI, transfer, attempt>>
  /\ UNCHANGED nonDlVars

\* the caller has taken the results; the downloader can be called again
DlReturn ==
  /\ dlPc \in {"resolved", "rejected"}
  /\ dlMethod' = "none"
  /\ dlUrls' = <<>>
  /\ dlI' = 0
  /\ transfer' = <<>>
  /\ attempt' = <<>>
  /\ dlResults' = <<>>
  /\ dlPc' = "idle"
  /\ UNCHANGED <<parallelLimit, serves>>
  /\ UNCHANGED nonDlVars

(***************************************************************************)
(* Parallel downloader, downloadFile (src/unnamed/part_002)                *)
(***************************************************************************)
\* the bytes of the remote file
Remote == [k \in 1..RemoteLen |-> k]

\* n bytes that are no prefix of the remote file
Stale(n) == [k \in 1..n |-> 0]

NoFile == [exists |-> FALSE, bytes |-> <<>>]
FileOf(bytes) == [exists |-> TRUE, bytes |-> bytes]

\* what a previous run can have left at filePath: nothing, a prefix of the
\* remote file (the whole file included), or bytes of another version of it
PartialFiles ==
  {NoFile} \cup {FileOf(SubSeq(Remote, 1, n)) : n \in 0..RemoteLen}
           \cup {FileOf(Stale(n)) : n \in 1..RemoteLen + 1}

NoRange == -1
NoHeader == [first |-> -1, last |-> -1, total |-> -1]

Error416 == "HTTP 416: Range Not Satisfiable"

\* the smallest power of ten above n
RECURSIVE PowerOfTenAbove(_)
PowerOfTenAbove(n) == IF n < 10 THEN 10 ELSE 10 * PowerOfTenAbove(n \div 10)

\* contentRange.includes(`${existingSize}-`) on "bytes first-last/total": the
\* only "-" follows first, so the digits of existingSize must end first
IncludesOffset(contentRange, size) ==
  /\ contentRange.first >= size
  /\ (contentRange.first - size) % PowerOfTenAbove(size) = 0

\* the tail of the remote file from offset on, with its Content-Range
Partial(offset) ==
  [status |-> 206,
   contentRange |-> [first |-> offset, last |-> RemoteLen - 1, total |-> RemoteLen],
   body |-> SubSeq(Remote, offset + 1, RemoteLen)]

Full == [status |-> 200, contentRange |-> NoHeader, body |-> Remote]

\* a range of another, longer version of the file, ten bytes further on
Shifted(offset) ==
  [status |-> 206,
   contentRange |-> [first |-> offset + 10, last |-> offset + 10,
                     total |-> offset + 11],
   body |-> Stale(1)]

NoResponse == [status |-> 0, contentRange |-> NoHeader, body |-> <<>>]

\* the responses the server can give to a request with the given Range
\* header: the whole file, the range asked for (with or without a
\* Content-Range), other ranges, 416 for an offset at or past the end, 404
Responses(range) ==
  {Full, [status |-> 404, contentRange |-> NoHeader, body |-> <<>>]} \cup
  (IF range = NoRange THEN {}
   ELSE IF range < RemoteLen
     THEN {Partial(range), [Partial(range) EXCEPT !.contentRange = NoHeader],
           Partial(0), Shifted(range)}
     ELSE {[status |-> 416, contentRange |-> NoHeader, body |-> <<>>]})

NoProgress == [status |-> "none", bytesDownloaded |-> 0, totalBytes |-> 0]
NoResult == [success |-> FALSE, error |-> "none"]

\* no call of downloadFile is open
DfIdle ==
  /\ dfPc = "idle"
  /\ existingSize = 0
  /\ rangeHeader = NoRange
  /\ body = <<>>
  /\ downloadedBytes = 0
  /\ totalBytes = 0
  /\ progress = NoProgress
  /\ restarts = 0
  /\ dfResult = NoResult
  /\ saw416 = FALSE
  /\ staleKept = FALSE
  /\ lastResponse = NoResponse

\* a temp directory nobody downloads to
DfQuiet ==
  /\ disk = NoFile
  /\ DfIdle

\* downloadFile(url) is called
DfCall ==
  /\ dfPc = "idle"
  /\ dfPc' = "start"
  /\ restarts' = 0
  /\ saw416' = FALSE
  /\ staleKept' = FALSE
  /\ dfResult' = NoResult
  /\ lastResponse' = NoResponse
  /\ UNCHANGED <<disk, existingSize, rangeHeader, body, downloadedBytes,
                 totalBytes, progress>>
  /\ UNCHANGED nonDfVars

\* downloadFile from its entry to the fetch: progress entry, size of the
\* file on disk, Range header
DfBegin ==
  /\ dfPc = "start"
  /\ progress' = [status |-> "downloading", bytesDownloaded |-> 0, totalBytes |-> 0]
  /\ existingSize' = IF disk.exists THEN Len(disk.bytes) ELSE 0
  /\ rangeHeader' = IF existingSize' > 0 THEN existingSize' ELSE NoRange
  /\ dfPc' = "fetch"
  /\ UNCHANGED <<disk, body, downloadedBytes, totalBytes, restarts, dfResult,
                 saw416, staleKept, lastResponse>>
  /\ UNCHANGED nonDfVars

\* the catch block of downloadFile
DfFail(message) ==
  /\ progress' = [status |-> "failed", bytesDownloaded |-> progress.bytesDownloaded,
                  totalBytes |-> progress.totalBytes]
  /\ dfResult' = [success |-> FALSE, error |-> message]
  /\ dfPc' = "settled"

\* fetch rejects: the error lands in the catch block
DfFetchError ==
  /\ dfPc = "fetch"
  /\ DfFail(NetworkError)
  /\ UNCHANGED <<disk, existingSize, rangeHeader, body, downloadedBytes,
                 totalBytes, restarts, saw416, staleKept, lastResponse>>
  /\ UNCHANGED nonDfVars

\* Deno.remove(filePath) inside try/catch, then return this.downloadFile(url);
\* removed: whether Deno.remove succeeded. The code counts nothing: restarts
\* records how many re-entries the call has made, up to MaxRestarts
DfRestart(removed) ==
  /\ disk' = IF removed THEN NoFile ELSE disk
  /\ restarts' = IF restarts < MaxRestarts THEN restarts + 1 ELSE restarts
  /\ dfPc' = "start"
  /\ UNCHANGED <<existingSize, rangeHeader, body, downloadedBytes, totalBytes,
                 progress, dfResult>>

\* the response arrives and is handled up to the first read of the body
DfResponse(response) ==
  /\ dfPc = "fetch"
  /\ lastResponse' = response
  /\ IF response.status = 416
       THEN /\ \E removed \in BOOLEAN :
                 /\ DfRestart(removed)
                 /\ staleKept' = ~removed
            /\ saw416' = TRUE
     ELSE IF response.status \notin {200, 206}
       THEN /\ DfFail(DownloadError)
            /\ UNCHANGED <<disk, existingSize, rangeHeader, body,
                           downloadedBytes, totalBytes, restarts, saw416,
                           staleKept>>
     ELSE IF /\ existingSize > 0
             /\ response.status = 206
             /\ response.contentRange # NoHeader
             /\ ~IncludesOffset(response.contentRange, existingSize)
       THEN /\ \E removed \in BOOLEAN : DfRestart(removed)
            /\ UNCHANGED <<saw416, staleKept>>
     ELSE /\ totalBytes' = Len(response.body) + existingSize
          /\ progress' = [status |-> "downloading",
                          bytesDownloaded |-> existingSize,
                          totalBytes |-> totalBytes']
          /\ disk' = IF disk.exists THEN disk ELSE FileOf(<<>>)
          /\ body' = response.body
          /\ downloadedBytes' = existingSize
          /\ dfPc' = "body"
          /\ UNCHANGED <<existingSize, rangeHeader, restarts, dfResult, saw416,
                         staleKept>>
  /\ UNCHANGED nonDfVars

\* one iteration of the read loop: a chunk is written to the file, which was
\* opened for append when existingSize > 0 and is empty otherwise
DfRead ==
  /\ dfPc = "body"
  /\ body # <<>>
  /\ disk' = FileOf(Append(disk.bytes, Head(body)))
  /\ body' = Tail(body)
  /\ downloadedBytes' = downloadedBytes + 1
  /\ progress' = [status |-> "downloading", bytesDownloaded |-> downloadedBytes',
                  totalBytes |-> totalBytes]
  /\ UNCHANGED <<dfPc, existingSize, rangeHeader, totalBytes, restarts, dfResult,
                 saw416, staleKept, lastResponse>>
  /\ UNCHANGED nonDfVars

\* "Mark as completed" and the success result
DfSucceed ==
  /\ progress' = [status |-> "completed", bytesDownloaded |-> totalBytes,
                  totalBytes |-> totalBytes]
  /\ dfResult' = [success |-> TRUE, error |-> ""]
  /\ dfPc' = "settled"
  /\ body' = <<>>

\* the reader reports done
DfBodyDone ==
  /\ dfPc = "body"
  /\ body = <<>>
  /\ DfSucceed
  /\ UNCHANGED <<disk, existingSize, rangeHeader, downloadedBytes, totalBytes,
                 restarts, saw416, staleKept, lastResponse>>
  /\ UNCHANGED nonDfVars

\* reader.read() rejects before the body is complete: the inner catch logs
\* the error and the function goes on to the success result
DfBodyError ==
  /\ dfPc = "body"
  /\ body # <<>>
  /\ DfSucceed
  /\ UNCHANGED <<disk, existingSize, rangeHeader, downloadedBytes, totalBytes,
                 restarts, saw416, staleKept, lastResponse>>
  /\ UNCHANGED nonDfVars

(***************************************************************************)
(* The transaction of insertGaiaRecords, statement by statement            *)
(* (src/src/database.ts)                                                   *)
(***************************************************************************)
\* a failed transaction that keeps what its statements wrote
RollbackNothing(saved, current) == current

\* ROLLBACK: the table as it was at BEGIN
Rollback(saved, current) == saved

StatementError == "database or disk is full"

InsertRunning ==
  IF storeCall = NoCall THEN FALSE
  ELSE storeCall.op = "insertGaiaRecords" /\ storeCall.outcome = "running"

\* insertGaiaRecords up to BEGIN; an empty batch returns 0 at once
InsertBegin(records) ==
  /\ ~InsertRunning
  /\ BagCardinality(gaiadr3) + Len(records) <= MaxRows
  /\ storeCall' = [op |-> "insertGaiaRecords", records |-> records, next |-> 1,
                   saved |-> gaiadr3, insertedCount |-> 0, error |-> "",
                   outcome |-> IF Len(records) = 0 THEN "returned" ELSE "running"]
  /\ UNCHANGED <<config, listing, content, tracking, gaiadr3>>
  /\ UNCHANGED nonStoreVars

\* stmt.run(...values) of the next record; insertedCount++
InsertStatement ==
  /\ InsertRunning
  /\ storeCall.next <= Len(storeCall.records)
  /\ gaiadr3' = InsertRow(gaiadr3, storeCall.records[storeCall.next])
  /\ storeCall' = [storeCall EXCEPT !.next = @ + 1, !.insertedCount = @ + 1]
  /\ UNCHANGED <<config, listing, content, tracking>>
  /\ UNCHANGED nonStoreVars

\* stmt.run throws: the transaction wrapper rolls back and throws the error on
InsertStatementFails ==
  /\ InsertRunning
  /\ storeCall.next <= Len(storeCall.records)
  /\ gaiadr3' = Rollback(storeCall.saved, gaiadr3)
  /\ storeCall' = [storeCall EXCEPT !.outcome = "threw", !.error = StatementError]
  /\ UNCHANGED <<config, listing, content, tracking>>
  /\ UNCHANGED nonStoreVars

\* COMMIT, stmt.finalize(), return insertedCount
InsertCommit ==
  /\ InsertRunning
  /\ storeCall.next > Len(storeCall.records)
  /\ storeCall' = [storeCall EXCEPT !.outcome = "returned"]
  /\ UNCHANGED <<config, listing, content, tracking, gaiadr3>>
  /\ UNCHANGED nonStoreVars

(***************************************************************************)
(* Cone search (src/src/database.ts)                                       *)
(***************************************************************************)
\* Angles are whole degrees; sines and cosines are in ten-thousandths, the
\* half-width of the bounding box in right ascension in thousandths of a
\* degree, magnitudes in thousandths of a magnitude.

\* cos of 0, 1, .. 90 degrees
CosTable == <<
    10000, 9998, 9994, 9986, 9976, 9962, 9945, 9925, 9903, 9877,
    9848, 9816, 9781, 9744, 9703, 9659, 9613, 9563, 9511, 9455,
    9397, 9336, 9272, 9205, 9135, 9063, 8988, 8910, 8829, 8746,
    8660, 8572, 8480, 8387, 8290, 8192, 8090, 7986, 7880, 7771,
    7660, 7547, 7431, 7314, 7193, 7071, 6947, 6820, 6691, 6561,
    6428, 6293, 6157, 6018, 5878, 5736, 5592, 5446, 5299, 5150,
    5000, 4848, 4695, 4540, 4384, 4226, 4067, 3907, 3746, 3584,
    3420, 3256, 3090, 2924, 2756, 2588, 2419, 2250, 2079, 1908,
    1736, 1564, 1392, 1219, 1045, 872, 698, 523, 349, 175,
    0>>

Cos(deg) ==
  LET a == deg % 360
      b == IF a > 180 THEN 360 - a ELSE a
  IN  IF b <= 90 THEN CosTable[b + 1] ELSE 0 - CosTable[181 - b]

Sin(deg) == Cos(deg - 90)

\* the % of JavaScript: the remainder has the sign of the dividend
JsRem(a, n) == IF a >= 0 THEN a % n ELSE 0 - ((0 - a) % n)

Max(a, b) == IF a > b THEN a ELSE b

\* (radius * 180) / (Math.PI * Math.cos(decRad)), in thousandths of a degree
DeltaRa(radius, dec) ==
  LET n == radius * 572958
      c == Cos(dec)
  IN  (n \div c) * 1000 + ((n % c) * 1000) \div c

\* the WHERE terms on g.dec and g.ra
InBoundingBox(row, ra, dec, radius) ==
  LET deltaRa == DeltaRa(radius, dec)
      decMin == Max(dec - radius, -90)
      decMax == Min(dec + radius, 90)
      raMin == JsRem(ra * 1000 - deltaRa + 360000, 360000)
      raMax == (ra * 1000 + deltaRa) % 360000
      gra == row.ra * 1000
  IN  /\ row.dec >= decMin /\ row.dec <= decMax
      /\ IF raMin > raMax
            THEN \/ (gra >= raMin /\ gra <= 360000)
                 \/ (gra >= 0 /\ gra <= raMax)
            ELSE gra >= raMin /\ gra <= raMax

\* 10 ** (tenths / 10), in thousandths
Mantissa == <<1000000, 1258925, 1584893, 1995262, 2511886, 3162278, 3981072,
              5011872, 6309573, 7943282>>

RECURSIVE TenTo(_)
TenTo(k) == IF k = 0 THEN 1 ELSE 10 * TenTo(k - 1)

Pow10(tenths) == (Mantissa[(tenths % 10) + 1] * TenTo(tenths \div 10)) \div 1000

\* 10 ** ((zp - mag) / 2.5), in thousandths of a flux unit
FluxOfMagnitude(mag) == Pow10((zeropoint - mag) \div 250)

\* Math.round of a value given in thousandths
Round(x) == (x + 500) \div 1000

NoMagnitudeLimit == <<>>

\* the WHERE terms on g.phot_g_mean_flux
InFluxRange(row, limit) ==
  IF limit = NoMagnitudeLimit THEN TRUE
  ELSE LET maxFlux == Round(FluxOfMagnitude(limit[1]))
           minFlux == Round(FluxOfMagnitude(limit[2]))
       IN  row.phot_g_mean_flux < maxFlux /\ row.phot_g_mean_flux > minFlux

\* a query without the spherical cap term
InSphericalCapSkipped(row, ra, dec, radius) == TRUE

\* the spherical cap term of the WHERE clause
InSphericalCap(row, ra, dec, radius) ==
  Sin(row.dec) * Sin(dec)
    + ((Cos(row.dec) * Cos(dec)) \div 10000) * Cos(row.ra - ra)
    >= Cos(radius) * 10000

\* GaiaDatabase.coneSearch without the 2MASS join: the rows the query selects
ConeSearch(table, ra, dec, radius, limit) ==
  {row \in BagToSet(table) :
     /\ InBoundingBox(row, ra, dec, radius)
     /\ InFluxRange(row, limit)
     /\ InSphericalCap(row, ra, dec, radius)}

\* a row of gaiadr3 with a position
Star(id, ra, dec, flux) ==
  [source_id |-> id, ra |-> ra, dec |-> dec, phot_g_mean_flux |-> flux]

EquatorStars ==
  {Star(1, 0, 0, 100), Star(2, 1, 0, 158), Star(3, 10, 0, 200),
   Star(4, 12, 1, 201), Star(5, 14, 0, 999), Star(6, 200, 0, 1000),
   Star(7, 359, 0, 159), Star(8, 355, -3, 500)}

PolarStars ==
  {Star(11, 0, 90, 300), Star(12, 200, 89, 200), Star(13, 10, 88, 500),
   Star(14, 190, 88, 200), Star(15, 10, 45, 200), Star(16, 13, 46, 100),
   Star(17, 180, -89, 500), Star(18, 5, -88, 200)}

Catalogs == {EquatorStars, PolarStars, EquatorStars \cup PolarStars}

QueryRa == {0, 10, 350}
QueryDec == {-89, 0, 45, 89}
QueryRadius == {1, 2, 3, 4, 10, 90, 180}

\* [minMag, maxMag] pairs whose flux bounds are 10 ** 3 and 10 ** 2,
\* 10 ** 2.2, 10 ** 2.3
MagnitudeLimits ==
  {<<zeropoint - 7500, zeropoint - 5000>>,
   <<zeropoint - 7500, zeropoint - 5500>>,
   <<zeropoint - 7500, zeropoint - 5750>>}

CallConeSearch(ra, dec, radius, limit) ==
  /\ fnCall' = [op |-> "coneSearch", ra |-> ra, dec |-> dec, radius |-> radius,
                magnitudeLimit |-> limit]
  /\ fnResult' = ConeSearch(gaiadr3, ra, dec, radius, limit)
  /\ UNCHANGED nonFnVars

\* Gaia.brightnessLimitSearch: the cone search of radius 180 around (0, 0)
BrightnessLimitSearch(table, limit) == ConeSearch(table, 0, 0, 180, limit)

CallBrightnessLimitSearch(limit) ==
  /\ fnCall' = [op |-> "brightnessLimitSearch", magnitudeLimit |-> limit]
  /\ fnResult' = BrightnessLimitSearch(gaiadr3, limit)
  /\ UNCHANGED nonFnVars

(***************************************************************************)
(* createGaia(options).run(callback) (src/src/gaia.ts)                     *)
(***************************************************************************)
MaxGaiaRuns == 4

\* what the callback handed to run does: return a value, throw, or return a
\* promise that resolves or rejects
Callbacks == {"returns", "throws", "resolves", "rejects"}

\* a database file on which run has not been called yet
GaiaDatabaseFile(hasTmassTable) ==
  [op |-> "database", hasTmassTable |-> hasTmassTable, runs |-> 0,
   tmassCrossmatch |-> FALSE, callback |-> "none"]

NoConnection == [opened |-> 0, closed |-> 0, outcome |-> "none"]

\* Gaia.constructor after new GaiaDatabase(options): the check of the 2MASS
\* table throws
ConstructorThrows(tmassCrossmatch, hasTmassTable) ==
  tmassCrossmatch /\ ~hasTmassTable

\* run up to its return: new Gaia(options) opens the connection, then the
\* callback is called inside try/catch
CreateGaiaRun(tmassCrossmatch, callback) ==
  /\ fnCall.op \in {"database", "run"}
  /\ fnResult.outcome # "pending"
  /\ fnCall.runs < MaxGaiaRuns
  /\ fnCall' = [op |-> "run", hasTmassTable |-> fnCall.hasTmassTable,
                runs |-> fnCall.runs + 1, tmassCrossmatch |-> tmassCrossmatch,
                callback |-> callback]
  /\ fnResult' =
       IF ConstructorThrows(tmassCrossmatch, fnCall.hasTmassTable)
         THEN [opened |-> fnResult.opened + 1, closed |-> fnResult.closed,
               outcome |-> "threw"]
       ELSE IF callback = "returns"
         THEN [opened |-> fnResult.opened + 1, closed |-> fnResult.closed + 1,
               outcome |-> "returned"]
       ELSE IF callback = "throws"
         THEN [opened |-> fnResult.opened + 1, closed |-> fnResult.closed + 1,
               outcome |-> "threw"]
       ELSE [opened |-> fnResult.opened + 1, closed |-> fnResult.closed,
             outcome |-> "pending"]
  /\ UNCHANGED nonFnVars

\* the promise of the callback settles: result.finally(() => g.close())
PromiseSettles ==
  /\ fnCall.op = "run"
  /\ fnResult.outcome = "pending"
  /\ fnResult' = [opened |-> fnResult.opened, closed |-> fnResult.closed + 1,
                  outcome |-> IF fnCall.callback = "resolves"
                                THEN "resolved" ELSE "rejected"]
  /\ UNCHANGED <<fnCall, nonFnVars>>

(***************************************************************************)
(* The record transform called on its own (src/src/utils.ts)               *)
(***************************************************************************)
\* the header line of a source file
Header == [c \in AllColumns |-> Str(c)]

ParserRows == {Rec(1, 10000), Rec(2, 1000)}

\* the files handed to the parser: an empty stream, or a header and data rows
Files ==
  {<<>>} \cup {<<Header>> \o rows : rows \in SeqsUpTo(ParserRows, MaxFileRows)}

ParserCalls ==
  [op : {"streamGzippedCSV"}, lines : Files, columnsToKeep : ColumnChoices,
   chunkSize : 1..MaxChunkSize]

\* phot_g_mean_flux as the parser leaves it: a number, null, or the empty string
FluxValues ==
  {Null, Str(""), Num(0), Num(-10), Num(1000), Num(10000), Num(100000)}

\* records with a flux, and one without the field
FilterRecords ==
  {[source_id |-> 1, phot_g_mean_flux |-> v] : v \in FluxValues}
    \cup {[source_id |-> 1]}

\* magnitude limits: the magnitude of flux 10000, the default, and just above
\* the magnitude of flux 1000
FilterLimits == {zeropoint - 10000, magnitudeLimit, zeropoint - 7499}

FilterCalls ==
  [op : {"filterByMagnitude"}, records : SeqsUpTo(FilterRecords, MaxFilterLen),
   magnitudeLimit : FilterLimits]

Returned(value) == [op |-> "returned", value |-> value]

stringColumns == {"source_id", "solution_id", "designation"}

\* the texts of a field tried: empty, the null and boolean words, numbers,
\* text that is no number
FieldTexts == {"", "null", "NULL", "true", "false", "12.5", "1e3", "abc"}

Bool(b) == [type |-> "boolean", value |-> b]
NotANumber == [type |-> "NaN"]

\* value.toLowerCase() on the texts tried
ToLowerCase(text) == IF text = "NULL" THEN "null" ELSE text

\* Number(value) on the texts tried, in thousandths
NumberOf(text) ==
  CASE text = "12.5" -> Num(12500)
    [] text = "1e3" -> Num(1000000)
    [] OTHER -> NotANumber

\* the conversion of one field in streamGzippedCSV (parseGaiaRecord is the
\* same function of column and text)
ParseField(col, text) ==
  IF col \in stringColumns \/ text = "" THEN Str(text)
  ELSE IF ToLowerCase(text) = "null" THEN Null
  ELSE IF ToLowerCase(text) = "false" THEN Bool(FALSE)
  ELSE IF ToLowerCase(text) = "true" THEN Bool(TRUE)
  ELSE IF NumberOf(text) = NotANumber THEN Str(text) ELSE NumberOf(text)

\* the value a column of gaiadr3 holds after stmt.run bound v to it:
\* source_id is TEXT, every other column REAL; a boolean is bound as 1 or 0,
\* and a text that is no number stays a text in a REAL column
StoredValue(col, v) ==
  IF v.type = "boolean" THEN Num(IF v.value THEN 1000 ELSE 0)
  ELSE IF v.type = "string" /\ col # "source_id"
            /\ NumberOf(v.value) # NotANumber
    THEN NumberOf(v.value)
  ELSE v

FieldCalls == [op : {"parseGaiaRecord"}, column : AllColumns, text : FieldTexts]

\* one field is parsed and the record inserted
RunParseGaiaRecord ==
  /\ fnCall.op = "parseGaiaRecord"
  /\ fnResult = NoCall
  /\ LET value == ParseField(fnCall.column, fnCall.text)
     IN  fnResult' = Returned([value |-> value,
                               stored |-> StoredValue(fnCall.column, value),
                               threw |-> FALSE])
  /\ UNCHANGED <<fnCall, nonFnVars>>

\* the generator run to its end
RunStreamGzippedCSV ==
  /\ fnCall.op = "streamGzippedCSV"
  /\ fnResult = NoCall
  /\ fnResult' = Returned(StreamGzippedCSV(fnCall.lines, fnCall.columnsToKeep,
                                           fnCall.chunkSize))
  /\ UNCHANGED <<fnCall, nonFnVars>>

RunFilterByMagnitude ==
  /\ fnCall.op = "filterByMagnitude"
  /\ fnResult = NoCall
  /\ fnResult' = Returned(FilterByMagnitude(fnCall.records, fnCall.magnitudeLimit,
                                            zeropoint))
  /\ UNCHANGED <<fnCall, nonFnVars>>

(***************************************************************************)
(* Crossmatch and photometry ingestion (src/unnamed/part_005,              *)
(* src/src/commands/populate.ts)                                           *)
(***************************************************************************)
\* an empty source_id field
NoSourceId == 0

\* a row of a crossmatch file, by column name
XRow(sid, tid) == [source_id |-> sid, original_ext_source_id |-> tid]

\* a row of a photometry file: its number of columns and columns 5, 6, 10, 14
TRow(n, tid, jMag, hMag, kMag) ==
  [cols |-> n, tmass_source_id |-> tid, j_m |-> jMag, h_m |-> hMag,
   k_m |-> kMag]

\* the crossmatch files of the archive: ids in and not in the catalog, an
\* empty field on either side, two Gaia sources matched to one 2MASS source,
\* one Gaia source listed twice
XmatchArchive ==
  << <<XRow(1, "t1"), XRow(2, "t2"), XRow(NoSourceId, "t9"), XRow(3, "")>>,
     <<XRow(3, "t3"), XRow(5, "t1"), XRow(1, "t4")>> >>

\* the photometry files of the archive: absent bands written as an empty
\* field, as null and as text that is no number, a short line, a line
\* without its source id
TmassArchive ==
  << <<TRow(15, "t1", "12.5", "", "null"), TRow(15, "t2", "9", "9", "9"),
       TRow(3, "t3", "9", "9", "9")>>,
     <<TRow(15, "t3", "abc", "9", "12.5"), TRow(15, "", "9", "9", "9"),
       TRow(15, "t4", "", "", "")>> >>

XmatchUrls == DOMAIN XmatchArchive
TmassUrls == DOMAIN TmassArchive

xmatchBatchSize == 1000
tmassBatchSize == 1000
minColumns == 15

NaN == [type |-> "NaN"]

\* parseFloat on the texts of the archive, in thousandths
ParseFloat(text) ==
  CASE text = "12.5" -> Num(12500)
    [] text = "9" -> Num(9000)
    [] OTHER -> NaN

\* jMag && jMag !== "null" ? parseFloat(jMag) : null
Band(text) == IF text # "" /\ text # "null" THEN ParseFloat(text) ELSE Null

\* a value bound to a REAL column: SQLite stores NaN as NULL
BindReal(v) == IF v = NaN THEN Null ELSE v

\* the source ids of the catalog table
CatalogIds(table) == {r.source_id : r \in BagToSet(table)}

\* a lookup that finds every id asked for
ExistingIdsAll(table, ids) == ids

\* SELECT source_id FROM gaiadr3 WHERE source_id IN (ids)
ExistingIds(table, ids) == ids \cap CatalogIds(table)

\* the rows with both ids, as crossmatch records
PotentialXmatch(rows) ==
  LET both == SelectSeq(rows, LAMBDA row :
                 row.source_id # NoSourceId /\ row.original_ext_source_id # "")
  IN  [n \in DOMAIN both |->
         [gaiadr3_source_id |-> both[n].source_id,
          tmass_source_id |-> both[n].original_ext_source_id]]

\* the filter loop of processTmassXmatchFile, a batch of ids per query
RECURSIVE XmatchRecords(_, _, _)
XmatchRecords(potential, table, from) ==
  IF from >= Len(potential) THEN <<>>
  ELSE LET batch == Slice(potential, from, from + xmatchBatchSize)
           existingIdSet ==
             ExistingIds(table, {batch[n].gaiadr3_source_id : n \in DOMAIN batch})
       IN  SelectSeq(batch, LAMBDA record :
                       record.gaiadr3_source_id \in existingIdSet)
             \o XmatchRecords(potential, table, from + xmatchBatchSize)

\* INSERT OR IGNORE INTO tmass_xmatch, gaiadr3_source_id being the primary key
RECURSIVE InsertTmassXmatchRecords(_, _)
InsertTmassXmatchRecords(table, records) ==
  IF records = <<>> THEN table
  ELSE LET record == Head(records)
           next == IF \E r \in table :
                        r.gaiadr3_source_id = record.gaiadr3_source_id
                     THEN table ELSE table \cup {record}
       IN  InsertTmassXmatchRecords(next, Tail(records))

\* a filter that also wants the three bands
KeepsRowAllBands(row) ==
  /\ row.cols >= minColumns
  /\ row.tmass_source_id # ""
  /\ Band(row.j_m) # Null /\ Band(row.h_m) # Null /\ Band(row.k_m) # Null

\* if (colArray.length < 15) continue; if (!tmassSourceId) continue
KeepsRow(row) ==
  /\ row.cols >= minColumns
  /\ row.tmass_source_id # ""

\* the lines kept by processTmassFile, with their bands parsed
PotentialTmass(rows) ==
  LET kept == SelectSeq(rows, KeepsRow)
  IN  [n \in DOMAIN kept |->
         [tmass_source_id |-> kept[n].tmass_source_id,
          j_m |-> Band(kept[n].j_m),
          h_m |-> Band(kept[n].h_m),
          k_m |-> Band(kept[n].k_m)]]

\* new Map(xmatchResults.map(...)): the SELECT returns its rows in an order
\* the code does not fix and a later row replaces an earlier one, so a 2MASS
\* id matched to several Gaia sources is mapped to any one of them
XmatchMaps(table, tids) ==
  LET matched == {t \in tids : \E r \in table : r.tmass_source_id = t}
  IN  {m \in [matched -> {r.gaiadr3_source_id : r \in table}] :
         \A t \in matched :
           [gaiadr3_source_id |-> m[t], tmass_source_id |-> t] \in table}

\* the matching loop of processTmassFile for one batch and one map
TmassRecords(batch, xmatchMap) ==
  LET matched == SelectSeq(batch, LAMBDA record :
                             record.tmass_source_id \in DOMAIN xmatchMap)
  IN  [n \in DOMAIN matched |->
         [gaiadr3_source_id |-> xmatchMap[matched[n].tmass_source_id],
          tmass_source_id |-> matched[n].tmass_source_id,
          j_m |-> matched[n].j_m,
          h_m |-> matched[n].h_m,
          k_m |-> matched[n].k_m]]

\* INSERT OR IGNORE INTO tmass, gaiadr3_source_id being the primary key
RECURSIVE InsertTmassRecords(_, _)
InsertTmassRecords(table, records) ==
  IF records = <<>> THEN table
  ELSE LET record == Head(records)
           row == [record EXCEPT !.j_m = BindReal(@), !.h_m = BindReal(@),
                                 !.k_m = BindReal(@)]
           next == IF \E r \in table :
                        r.gaiadr3_source_id = record.gaiadr3_source_id
                     THEN table ELSE table \cup {row}
       IN  InsertTmassRecords(next, Tail(records))

\* the calls of populateCommand for each command of the CLI
StagesOf(type) ==
  CASE type = "all" -> <<"gaia", "tmass-xmatch", "tmass">>
    [] type = "gaia" -> <<"gaia">>
    [] type = "tmass-xmatch" -> <<"tmass-xmatch">>
    [] type = "tmass" -> <<"tmass">>

PopulateTypes == {"all", "gaia", "tmass-xmatch", "tmass"}

\* INSERT OR IGNORE of the URLs of a dataset into its tracking table
SeedTracking(table, urls) ==
  [f \in urls |-> IF f \in DOMAIN table THEN table[f] ELSE "pending"]

\* main and populateCommand up to the first call of the coordinator
PopulateCommand(type) ==
  /\ cmd.stages = <<>>
  /\ commands < MaxCommands
  /\ cmd' = [stages |-> StagesOf(type), k |-> 0]
  /\ commands' = commands + 1
  /\ UNCHANGED <<tmass_xmatch, tmass, trackingXmatch, trackingTmass,
                 gaiaPopulated, tracking, gaiadr3>>
  /\ UNCHANGED nonTmVars

\* the batches of one run of populateGaiaDR3: every pending file is inserted
\* and marked completed, or marked failed
RECURSIVE IngestAll(_, _, _)
IngestAll(store, urls, ok) ==
  IF urls = <<>> THEN store
  ELSE LET u == Head(urls)
           next ==
             IF ok[u]
               THEN [table |-> InsertGaiaRecords(store.table,
                                                 StreamAndFilterCSV(u)).table,
                     tracking |-> MarkFileCompleted(store.tracking, u)]
               ELSE [table |-> store.table,
                     tracking |-> MarkFileFailed(store.tracking, u)]
       IN  IngestAll(next, Tail(urls), ok)

\* await coordinator.populateGaiaDR3(fileLimit): an error of optimize rejects
\* the command, which then makes no further call
PopulateGaiaDR3 ==
  /\ cmd.stages # <<>>
  /\ Head(cmd.stages) = "gaia"
  /\ \E ok \in [URLs -> BOOLEAN], optimized \in BOOLEAN :
       LET seeded == InitializeTracking(tracking, listing, FALSE)
           pending == FilterPending(seeded, listing)
           store == IngestAll([table |-> gaiadr3, tracking |-> seeded],
                              pending, ok)
       IN  /\ tracking' = store.tracking
           /\ gaiadr3' = store.table
           /\ cmd' = [stages |-> IF optimized THEN Tail(cmd.stages) ELSE <<>>,
                      k |-> 0]
  /\ gaiaPopulated' = TRUE
  /\ UNCHANGED <<tmass_xmatch, tmass, trackingXmatch, trackingTmass, commands>>
  /\ UNCHANGED nonTmVars

\* populateTmassXmatch and populateTmass up to their first file: the URLs of
\* the dataset are entered in its tracking table
BeginDataset ==
  /\ cmd.stages # <<>>
  /\ Head(cmd.stages) \in {"tmass-xmatch", "tmass"}
  /\ cmd.k = 0
  /\ IF Head(cmd.stages) = "tmass-xmatch"
       THEN /\ trackingXmatch' = SeedTracking(trackingXmatch, XmatchUrls)
            /\ UNCHANGED trackingTmass
       ELSE /\ trackingTmass' = SeedTracking(trackingTmass, TmassUrls)
            /\ UNCHANGED trackingXmatch
  /\ cmd' = [cmd EXCEPT !.k = 1]
  /\ UNCHANGED <<tmass_xmatch, tmass, commands, gaiaPopulated, tracking,
                 gaiadr3>>
  /\ UNCHANGED nonTmVars

\* processTmassXmatchFile for the next crossmatch file; parseOk: the file is
\* decompressed and parsed without an error
ProcessTmassXmatchFile ==
  /\ cmd.stages # <<>>
  /\ Head(cmd.stages) = "tmass-xmatch"
  /\ cmd.k \in XmatchUrls
  /\ LET url == cmd.k
     IN  IF IsFileProcessed(trackingXmatch, url)
           THEN UNCHANGED <<tmass_xmatch, trackingXmatch>>
           ELSE \E parseOk \in BOOLEAN :
                  IF parseOk
                    THEN /\ tmass_xmatch' =
                              InsertTmassXmatchRecords(tmass_xmatch,
                                XmatchRecords(PotentialXmatch(XmatchArchive[url]),
                                              gaiadr3, 0))
                         /\ trackingXmatch' =
                              MarkFileCompleted(trackingXmatch, url)
                    ELSE /\ trackingXmatch' =
                              MarkFileFailed(trackingXmatch, url)
                         /\ UNCHANGED tmass_xmatch
  /\ cmd' = [cmd EXCEPT !.k = @ + 1]
  /\ UNCHANGED <<tmass, trackingTmass, commands, gaiaPopulated, tracking,
                 gaiadr3>>
  /\ UNCHANGED nonTmVars

\* processTmassFile for the next photometry file
ProcessTmassFile ==
  /\ cmd.stages # <<>>
  /\ Head(cmd.stages) = "tmass"
  /\ cmd.k \in TmassUrls
  /\ LET url == cmd.k
         potential == PotentialTmass(TmassArchive[url])
         tids == {potential[n].tmass_source_id : n \in DOMAIN potential}
     IN  IF IsFileProcessed(trackingTmass, url)
           THEN UNCHANGED <<tmass, trackingTmass>>
           ELSE \E parseOk \in BOOLEAN :
                  IF parseOk
                    THEN /\ \E xmatchMap \in XmatchMaps(tmass_xmatch, tids) :
                              tmass' = InsertTmassRecords(tmass,
                                         TmassRecords(potential, xmatchMap))
                         /\ trackingTmass' =
                              MarkFileCompleted(trackingTmass, url)
                    ELSE /\ trackingTmass' = MarkFileFailed(trackingTmass, url)
                         /\ UNCHANGED tmass
  /\ cmd' = [cmd EXCEPT !.k = @ + 1]
  /\ UNCHANGED <<tmass_xmatch, trackingXmatch, commands, gaiaPopulated,
                 tracking, gaiadr3>>
  /\ UNCHANGED nonTmVars

\* the dataset has no file left: the call returns to populateCommand
EndDataset ==
  /\ cmd.stages # <<>>
  /\ \/ Head(cmd.stages) = "tmass-xmatch" /\ cmd.k = Len(XmatchArchive) + 1
     \/ Head(cmd.stages) = "tmass" /\ cmd.k = Len(TmassArchive) + 1
  /\ cmd' = [stages |-> Tail(cmd.stages), k |-> 0]
  /\ UNCHANGED <<tmass_xmatch, tmass, trackingXmatch, trackingTmass, commands,
                 gaiaPopulated, tracking, gaiadr3>>
  /\ UNCHANGED nonTmVars

(***************************************************************************)
(* Configuration (src/src/config.ts)                                       *)
(***************************************************************************)
\* DEFAULT_CONFIG.maxParallelDownloads
defaultParallel == 10

\* the --parallel option as parseArgs hands it over: missing, a number, or a
\* text that is no number
ParallelArgs ==
  {Undefined, Str("abc"), Str("12abc"), Num(-3), Num(0), Num(1), Num(7),
   Num(50), Num(51), Num(1000000)}

\* memInfo.available in whole GB, or a Deno.systemMemoryInfo() that throws
NoMemInfo == -1
MemoryInfos == {NoMemInfo} \cup 0..MaxAvailableGB

\* parseInt(`${value}`); NotANumber for a text without leading digits
ParseInt(value) ==
  CASE value.type = "number" -> value
    [] value.type = "string" /\ value.value = "12abc" -> Num(12)
    [] OTHER -> NotANumber

GetNumber(value, defaultValue) ==
  IF ParseInt(value) = NotANumber THEN defaultValue ELSE ParseInt(value).value

\* a clamp without its lower bound
ClampBelow(value, min, max) == Min(value, max)

\* Math.max(min, Math.min(value, max))
Clamp(value, min, max) == Max(min, Min(value, max))

\* Math.floor((availableGB * 0.8) / avgFileSizeGB), clamped to 1..10; 2 when
\* the memory information cannot be read
CalculateSafeParallelism(avgFileSizeGB, availableGB) ==
  IF availableGB = NoMemInfo THEN 2
  ELSE Clamp((availableGB * 8) \div (10 * avgFileSizeGB), 1, 10)

\* the maxParallelDownloads of the configuration parseConfig returns
ParseConfig(parallelArg, useStreaming, availableGB) ==
  LET parallel == GetNumber(parallelArg, defaultParallel)
      specifiedParallel == parallelArg # Undefined
      clamped == Clamp(parallel, 1, 50)
  IN  IF useStreaming /\ ~specifiedParallel
        THEN CalculateSafeParallelism(2, availableGB)
        ELSE clamped

\* DEFAULT_CONFIG.csvChunkSize
defaultCsvChunkSize == 100000

\* the --csv-chunks option as parseArgs hands it over: its default when the
\* option is absent, or the number given
CsvChunksArgs == {Num(defaultCsvChunkSize), Num(1), Num(2), Num(3)}

\* parseInt(string, radix): NaN for a radix that is neither 0 nor in 2..36
ParseIntRadix(value, radix) ==
  IF radix # 0 /\ (radix < 2 \/ radix > 36) THEN NotANumber
  ELSE ParseInt(value)

\* the csvChunkSize of the configuration parseConfig returns
ParseCsvChunks(csvChunksArg) == ParseIntRadix(csvChunksArg, defaultCsvChunkSize)

\* the chunkSize at which the test chunk.length >= chunkSize of the parser
\* first holds; for NaN it holds for no length, which is a size beyond every
\* file tried
ChunkLimit(size) == IF size = NotANumber THEN MaxFileRows + 1 ELSE size.value

\* --csv-chunks values and files of up to MaxFileRows data rows
ChunkCalls ==
  [op : {"csvChunks"}, csvChunks : CsvChunksArgs, rows : 0..MaxFileRows]

\* parseConfig, then streamGzippedCSV with config.csvChunkSize
RunCsvChunks ==
  /\ fnCall.op = "csvChunks"
  /\ fnResult = NoCall
  /\ LET size == ParseCsvChunks(fnCall.csvChunks)
         lines == <<Header>> \o [n \in 1..fnCall.rows |-> Rec(n, 10000)]
     IN  fnResult' = Returned([csvChunkSize |-> size,
                               batches |-> StreamGzippedCSV(lines, AllColumns,
                                                            ChunkLimit(size))])
  /\ UNCHANGED <<fnCall, nonFnVars>>

ConfigCalls ==
  [op : {"parseConfig"}, parallel : ParallelArgs, stream : BOOLEAN,
   availableGB : MemoryInfos]

RunParseConfig ==
  /\ fnCall.op = "parseConfig"
  /\ fnResult = NoCall
  /\ fnResult' = Returned(ParseConfig(fnCall.parallel, fnCall.stream,
                                      fnCall.availableGB))
  /\ UNCHANGED <<fnCall, nonFnVars>>

(***************************************************************************)
(* Specifications                                                          *)
(***************************************************************************)
\* the coordinator on a fresh store
CoordInit ==
  /\ \E setup \in Setups :
       /\ config = [maxParallelDownloads |-> MaxParallel,
                    storedColumns |-> AllColumns,
                    pipeline |-> setup.pipeline]
       /\ listing = setup.listing
       /\ content = setup.content
  /\ StoreEmpty
  /\ RunIdle

Init ==
  /\ CoordInit
  /\ storeCall = NoCall
  /\ DlQuiet
  /\ DfQuiet
  /\ FnQuiet
  /\ TmQuiet

Next ==
  \/ \E limit \in {NoLimit} \cup 1..MaxFileLimit : StartRun(limit)
  \/ DownloadBatch
  \/ ProcessBatch
  \/ AccumulateStep
  \/ BulkInsert
  \/ MarkStep
  \/ FileStep
  \/ ChunkInsert
  \/ FileCompleted
  \/ FileFailed
  \/ NextBatch
  \/ CreateIndices
  \/ Optimize
  \/ PrintSummary
  \/ Crash

Spec == Init /\ [][Next]_vars

\* the steps of one call of populateGaiaDR3 once it has started
RunStep ==
  \/ DownloadBatch
  \/ ProcessBatch
  \/ AccumulateStep
  \/ BulkInsert
  \/ MarkStep
  \/ FileStep
  \/ ChunkInsert
  \/ FileCompleted
  \/ FileFailed
  \/ NextBatch
  \/ CreateIndices
  \/ Optimize
  \/ PrintSummary

RunNext ==
  \/ \E limit \in {NoLimit} \cup 1..MaxFileLimit : StartRun(limit)
  \/ RunStep

\* a process that is not killed: every awaited promise settles, so the
\* function goes on to its next statement
SpecRun == Init /\ [][RunNext]_vars /\ WF_vars(RunStep)

\* the store on its own
StoreInit ==
  /\ \E cols \in ColumnChoices :
       config = [maxParallelDownloads |-> 1, storedColumns |-> cols,
                 pipeline |-> "batched"]
  /\ listing = PlainListing
  /\ content = BrightArchive
  /\ StoreEmpty
  /\ RunIdle
  /\ storeCall = NoCall
  /\ DlQuiet
  /\ DfQuiet
  /\ FnQuiet
  /\ TmQuiet

\* any sequence of calls on the tracking table
TrackingNext ==
  \/ \E urls \in TrackingInputs, overwrite \in BOOLEAN :
       CallInitializeTracking(urls, overwrite)
  \/ \E url \in URLs : CallMarkFileCompleted(url)
  \/ \E url \in URLs : CallMarkFileFailed(url)
  \/ CallGetTrackingProgress

SpecTracking == StoreInit /\ [][TrackingNext]_vars

\* any sequence of inserts into the catalog table
CatalogNext == \E records \in Batches : CallInsertGaiaRecords(records)

SpecCatalog == StoreInit /\ [][CatalogNext]_vars

\* the batch methods of the downloader on their own
DlInit ==
  /\ config = [maxParallelDownloads |-> MaxParallel, storedColumns |-> AllColumns,
               pipeline |-> "batched"]
  /\ listing = PlainListing
  /\ content = BrightArchive
  /\ StoreEmpty
  /\ RunIdle
  /\ storeCall = NoCall
  /\ parallelLimit \in 1..MaxParallel
  /\ serves \in [URLs -> Behaviours]
  /\ DlIdle
  /\ DfQuiet
  /\ FnQuiet
  /\ TmQuiet

DlNext ==
  \/ \E urls \in DlInputs : CallDownloadBatch(urls)
  \/ \E k \in DOMAIN dlUrls : FinishFile(k)
  \/ ChunkDone
  \/ \E urls \in DlInputs : CallStreamBatch(urls)
  \/ \E k \in DOMAIN dlUrls : StreamAttempt(k)
  \/ StreamResolve
  \/ DlReturn

SpecDL == DlInit /\ [][DlNext]_vars

\* downloadFile on its own
DfInit ==
  /\ config = [maxParallelDownloads |-> MaxParallel, storedColumns |-> AllColumns,
               pipeline |-> "batched"]
  /\ listing = PlainListing
  /\ content = BrightArchive
  /\ StoreEmpty
  /\ RunIdle
  /\ storeCall = NoCall
  /\ DlQuiet
  /\ disk \in PartialFiles
  /\ DfIdle
  /\ FnQuiet
  /\ TmQuiet

DfNext ==
  \/ DfCall
  \/ DfBegin
  \/ DfFetchError
  \/ \E response \in Responses(rangeHeader) : DfResponse(response)
  \/ DfRead
  \/ DfBodyDone
  \/ DfBodyError

SpecFile == DfInit /\ [][DfNext]_vars

\* downloadFile when every promise it awaits settles (stat, fetch, remove,
\* open, read, write): a call that can take a step takes one
SpecFileFair == DfInit /\ [][DfNext]_vars /\ WF_vars(DfNext)

\* any sequence of inserts, followed statement by statement
InsertNext ==
  \/ \E records \in Batches : InsertBegin(records)
  \/ InsertStatement
  \/ InsertStatementFails
  \/ InsertCommit

SpecInsert == StoreInit /\ [][InsertNext]_vars

\* cone searches on a populated catalog
ConeInit ==
  /\ config = [maxParallelDownloads |-> MaxParallel,
               storedColumns |-> {"source_id", "ra", "dec", "phot_g_mean_flux"},
               pipeline |-> "batched"]
  /\ listing = PlainListing
  /\ content = BrightArchive
  /\ tracking = EmptyTracking
  /\ \E stars \in Catalogs : gaiadr3 = SetToBag(stars)
  /\ RunIdle
  /\ storeCall = NoCall
  /\ DlQuiet
  /\ DfQuiet
  /\ FnQuiet
  /\ TmQuiet

ConeNext ==
  \/ \E ra \in QueryRa, dec \in QueryDec, radius \in QueryRadius,
        limit \in {NoMagnitudeLimit} \cup MagnitudeLimits :
       CallConeSearch(ra, dec, radius, limit)
  \/ \E limit \in MagnitudeLimits : CallBrightnessLimitSearch(limit)

SpecCone == ConeInit /\ [][ConeNext]_vars

\* calls of createGaia(options).run(callback) on a database file
GaiaInit ==
  /\ config = [maxParallelDownloads |-> MaxParallel, storedColumns |-> AllColumns,
               pipeline |-> "batched"]
  /\ listing = PlainListing
  /\ content = BrightArchive
  /\ StoreEmpty
  /\ RunIdle
  /\ storeCall = NoCall
  /\ DlQuiet
  /\ DfQuiet
  /\ \E hasTmassTable \in BOOLEAN : fnCall = GaiaDatabaseFile(hasTmassTable)
  /\ fnResult = NoConnection
  /\ TmQuiet

GaiaNext ==
  \/ \E tmassCrossmatch \in BOOLEAN, callback \in Callbacks :
       CreateGaiaRun(tmassCrossmatch, callback)
  \/ PromiseSettles

SpecGaia == GaiaInit /\ [][GaiaNext]_vars

\* the parser and the magnitude filter on their own
TransformInit ==
  /\ config = [maxParallelDownloads |-> MaxParallel, storedColumns |-> AllColumns,
               pipeline |-> "batched"]
  /\ listing = PlainListing
  /\ content = BrightArchive
  /\ StoreEmpty
  /\ RunIdle
  /\ storeCall = NoCall
  /\ DlQuiet
  /\ DfQuiet
  /\ fnCall \in ParserCalls \cup FilterCalls \cup FieldCalls
  /\ fnResult = NoCall
  /\ TmQuiet

TransformNext ==
  \/ RunStreamGzippedCSV
  \/ RunFilterByMagnitude
  \/ RunParseGaiaRecord

SpecTransform == TransformInit /\ [][TransformNext]_vars

\* the populate commands of the CLI on a fresh store
TmInit ==
  /\ config = [maxParallelDownloads |-> MaxParallel, storedColumns |-> AllColumns,
               pipeline |-> "batched"]
  /\ listing = PlainListing
  /\ content = BrightArchive
  /\ StoreEmpty
  /\ RunIdle
  /\ storeCall = NoCall
  /\ DlQuiet
  /\ DfQuiet
  /\ FnQuiet
  /\ TmQuiet

TmNext ==
  \/ \E type \in PopulateTypes : PopulateCommand(type)
  \/ PopulateGaiaDR3
  \/ BeginDataset
  \/ ProcessTmassXmatchFile
  \/ ProcessTmassFile
  \/ EndDataset

SpecTmass == TmInit /\ [][TmNext]_vars

\* parseConfig called on its own
ConfigInit ==
  /\ config = [maxParallelDownloads |-> MaxParallel, storedColumns |-> AllColumns,
               pipeline |-> "batched"]
  /\ listing = PlainListing
  /\ content = BrightArchive
  /\ StoreEmpty
  /\ RunIdle
  /\ storeCall = NoCall
  /\ DlQuiet
  /\ DfQuiet
  /\ fnCall \in ConfigCalls \cup ChunkCalls
  /\ fnResult = NoCall
  /\ TmQuiet

ConfigNext ==
  \/ RunParseConfig
  \/ RunCsvChunks

SpecConfig == ConfigInit /\ [][ConfigNext]_vars

TypeOK ==
  /\ pc \in {"idle", "download", "process", "accumulate", "insert", "mark",
             "file", "chunks", "progress", "finalize", "optimize", "summary",
             "done", "aborted"}
  /\ tracking \in [URLs -> {"absent", "pending", "completed", "failed"}]
  /\ runs \in 0..MaxRuns

(***************************************************************************)
(* Properties of the coordinator and the store                             *)
(***************************************************************************)
CompletedAtStart == {u \in URLs : startStatus[u] = "completed"}

\* the URLs whose tracking status is not completed once the run has seeded the table
NotCompletedAtStart ==
  {u \in URLs : startStatus[u] \in {"pending", "failed"}
                  \/ (startStatus[u] = "absent" /\ u \in Range(listing))}

\* C1: a run of populateGaiaDR3 without file limit never downloads, parses or
\* inserts a URL that was completed when it started, and a run that reaches its
\* end has handed to the downloader exactly the URLs that were not completed.
C1_ResumeCorrectness ==
  (pc # "idle" /\ fileLimit = NoLimit) =>
    /\ handed \cap CompletedAtStart = {}
    /\ parsed \cap CompletedAtStart = {}
    /\ inserted \cap CompletedAtStart = {}
    /\ (pc = "done" => handed = NotCompletedAtStart)

\* a finished run that started on a mix of completed, failed and pending entries
C1_Witness ==
  /\ pc = "done"
  /\ fileLimit = NoLimit
  /\ \E a, b, c \in URLs :
       /\ startStatus[a] = "completed"
       /\ startStatus[b] = "failed"
       /\ startStatus[c] = "pending"
       /\ {b, c} \subseteq handed
       /\ a \notin handed

\* no two rows of the table stand for the same source
NoDuplicateSource(table) ==
  /\ \A r \in BagToSet(table) : CopiesIn(r, table) = 1
  /\ \A a, b \in BagToSet(table) :
       (a # b /\ "source_id" \in DOMAIN a) => a.source_id # b.source_id

\* C2: for every batch B and every store state, insertGaiaRecords(B) twice
\* leaves the catalog table as insertGaiaRecords(B) once does, and no source_id
\* is in more than one row.
C2_IdempotentIngestion ==
  /\ NoDuplicateSource(gaiadr3)
  /\ \A B \in Batches :
       LET once == InsertGaiaRecords(gaiadr3, B).table
           twice == InsertGaiaRecords(once, B).table
       IN  /\ twice = once
           /\ BagCardinality(twice) = BagCardinality(once)
           /\ NoDuplicateSource(once)

\* the rows of file u that survive the magnitude filter
Survivors(u) == Range(StreamAndFilterCSV(u))

AllRowsCommitted(u) == Survivors(u) \subseteq BagToSet(gaiadr3)

DataPresent(u) == Survivors(u) \cap BagToSet(gaiadr3) # {}

\* the files of the batch the run is working on
InFlight ==
  IF pc \in {"process", "accumulate", "insert", "mark", "file", "chunks",
            "progress"}
    THEN Range(batchUrls) ELSE {}

C4_ParsedFilesCompleted ==
  (pc = "progress" /\ config.pipeline = "batched") =>
    \A k \in DOMAIN processResults :
      processResults[k].hasRecords
        => tracking[processResults[k].url] = "completed"

FailedInBatch ==
  {processResults[k].url : k \in {n \in DOMAIN processResults :
                                    ~processResults[n].hasRecords}}

SucceededInBatch ==
  {processResults[k].url : k \in {n \in DOMAIN processResults :
                                    processResults[n].hasRecords}}

\* C5: at the end of a batch every file whose download or parse failed has
\* status failed and has contributed no row, and every other file of the
\* batch has been parsed, inserted and marked completed.
C5_FailureIsolation ==
  (pc = "progress" /\ config.pipeline = "batched") =>
    /\ \A u \in FailedInBatch \ SucceededInBatch :
         /\ tracking[u] = "failed"
         /\ u \notin inserted
    /\ \A u \in SucceededInBatch :
         /\ AllRowsCommitted(u)
         /\ tracking[u] = "completed"

\* a pending row for every URL of the list that has no row, every other row
\* (completed, failed or pending) as it was
SeededTable(table, urls) ==
  [u \in URLs |-> IF table[u] = "absent" /\ u \in Range(urls)
                    THEN "pending" ELSE table[u]]

\* C6: initializeTracking in the default mode adds a pending row for every new
\* URL, leaves every existing row as it is (a completed or failed entry never
\* goes back to pending), and applied again changes nothing.
C6_InitializeTrackingFrame ==
  \A urls \in TrackingInputs :
    /\ InitializeTracking(tracking, urls, FALSE) = SeededTable(tracking, urls)
    /\ InitializeTracking(SeededTable(tracking, urls), urls, FALSE)
         = SeededTable(tracking, urls)

\* the last call was initializeTracking in the default mode, on a list with a
\* completed, a failed and a new URL
C6_Witness ==
  /\ storeCall.op = "initializeTracking"
  /\ ~storeCall.overwrite
  /\ \E a, b, c \in Range(storeCall.urls) :
       /\ tracking[a] = "completed"
       /\ tracking[b] = "failed"
       /\ tracking[c] = "pending"

(***************************************************************************)
(* Properties of the downloader                                            *)
(***************************************************************************)
InFlightCount == Cardinality({k \in DOMAIN transfer : transfer[k] = "inflight"})

\* C7: at every moment the number of in-flight transfers of the downloader is
\* at most its configured parallelism, whatever the number of URLs passed to
\* downloadBatch or streamBatch.
C7_ConcurrencyBound == InFlightCount <= parallelLimit

Queued == {k \in DOMAIN transfer : transfer[k] = "queued"}

\* C8 as stated: when downloadBatch has more URLs than its parallelism, a
\* queued URL starts as soon as one in-flight transfer finishes: whenever a
\* transfer has finished and a URL is still queued, no other transfer started
\* together with the finished one is awaited before the next start.
C8_StartsWhenSlotFreesAsStated ==
  (dlMethod = "downloadBatch" /\ dlPc = "running" /\ Queued # {}
     /\ \E k \in DOMAIN transfer : dlI < k /\ transfer[k] = "settled")
    => \A k \in DOMAIN transfer :
         (dlI < k /\ k <= dlI + parallelLimit) => transfer[k] = "settled"

\* C8: downloadBatch works through its URLs in chunks of the parallelism: the
\* URLs beyond the current chunk are queued, and a URL has started only if
\* every transfer of the chunks before its own has finished.
C8_ChunkBarrier ==
  (dlMethod = "downloadBatch" /\ dlPc = "running") =>
    \A k \in DOMAIN transfer :
      /\ transfer[k] = "queued" <=> k > dlI + parallelLimit
      /\ transfer[k] # "queued" =>
           \A m \in DOMAIN transfer :
             m <= ((k - 1) \div parallelLimit) * parallelLimit
               => transfer[m] = "settled"

\* a transfer of the chunk has finished, another is in flight, a URL is queued
C8_Witness ==
  /\ dlMethod = "downloadBatch"
  /\ dlPc = "running"
  /\ \E k, m, q \in DOMAIN transfer :
       /\ dlI < k /\ transfer[k] = "settled"
       /\ transfer[m] = "inflight"
       /\ transfer[q] = "queued"

\* what the server's treatment of a URL makes of its download
Succeeds(method, url) ==
  IF method = "downloadBatch" THEN serves[url] = "ok"
  ELSE serves[url] \in {"ok", "flaky"}

\* C9: downloadBatch and streamBatch never reject; they resolve with one result
\* per input URL, in input order, each a success with its file path or stream
\* or a failure with a reason, and the outcome of a URL depends on that URL
\* alone.
C9_OneResultPerUrl ==
  /\ dlPc # "rejected"
  /\ dlPc = "resolved" =>
       /\ Len(dlResults) = Len(dlUrls)
       /\ \A k \in DOMAIN dlUrls :
            LET result == dlResults[k]
            IN  /\ result.url = dlUrls[k]
                /\ result.success = Succeeds(dlMethod, dlUrls[k])
                /\ IF result.success
                     THEN DOMAIN result =
                            IF dlMethod = "downloadBatch"
                              THEN {"url", "filePath", "success"}
                              ELSE {"url", "stream", "success"}
                     ELSE /\ DOMAIN result = {"url", "success", "error"}
                          /\ result.error # ""

\* downloadBatch has resolved a call of more than one chunk in which a URL
\* failed and a later URL succeeded
C9_Witness ==
  /\ dlPc = "resolved"
  /\ dlMethod = "downloadBatch"
  /\ Len(dlUrls) > parallelLimit
  /\ \E k, m \in DOMAIN dlResults :
       /\ k < m
       /\ ~dlResults[k].success
       /\ dlResults[m].success

\* C10: once a ranged request of a call of downloadFile was answered with 416,
\* the next request carries no Range header, no byte is written while the
\* partial file is still on disk, the file reported as success holds the
\* bytes of the remote file, and the 416 is not reported as a failure.
C10_RestartAfter416 ==
  saw416 =>
    /\ dfPc \in {"fetch", "body", "settled"} => rangeHeader = NoRange
    /\ (dfPc \in {"body", "settled"} /\ downloadedBytes > existingSize)
         => ~staleKept
    /\ (dfPc = "settled" /\ dfResult.success) => disk = FileOf(Remote)
    /\ (dfPc = "settled" /\ ~dfResult.success) => dfResult.error # Error416

\* the response says it starts at the offset the request asked for
Confirms(response, offset) ==
  /\ response.contentRange # NoHeader
  /\ response.contentRange.first = offset

\* C11: resuming from a partial file of size S, downloadFile appends the body
\* of a 206 response only if its Content-Range says the range starts at byte
\* S; after any other 206 response the partial file is discarded and the next
\* request carries no Range header; and when the server honours bytes=S- the
\* file reported as success has the full length.
C11_RangeResume206 ==
  /\ (dfPc \in {"body", "settled"} /\ existingSize > 0
        /\ lastResponse.status = 206)
       => Confirms(lastResponse, existingSize)
  /\ (dfPc = "start" /\ lastResponse.status = 206) => ~disk.exists
  /\ (dfPc = "fetch" /\ lastResponse.status = 206) => rangeHeader = NoRange
  /\ (dfPc = "settled" /\ dfResult.success /\ existingSize > 0
        /\ lastResponse = Partial(existingSize))
       => Len(disk.bytes) = RemoteLen

\* C33: downloadFile reports success only when the whole response body was
\* written to the file; every other outcome is a failure with a reason whose
\* progress status is failed, and only a success is marked completed.
C33_SuccessOnlyWhenBodyWritten ==
  dfPc = "settled" =>
    /\ dfResult.success => downloadedBytes = totalBytes
    /\ dfResult.success <=> progress.status = "completed"
    /\ ~dfResult.success =>
         (dfResult.error # "" /\ progress.status = "failed")

\* C34: when a partial file of size S > 0 exists and the server answers the
\* ranged request with 200 and the full body, the file reported as success
\* holds exactly the bytes of the remote file.
C34_FullResponseReplacesPartial ==
  (dfPc = "settled" /\ dfResult.success /\ existingSize > 0
     /\ lastResponse = Full /\ downloadedBytes = totalBytes)
    => disk = FileOf(Remote)

\* C35: every call of downloadFile settles, whatever the server answers and
\* whether or not the partial file can be deleted.
C35_DownloadFileTerminates == (dfPc = "start") ~> (dfPc = "settled")

\* C12: streamDownload makes at most maxRetries + 1 attempts for a URL, returns
\* at the first attempt that succeeds, and when every attempt failed with a
\* transient error its failure carries the error of the last attempt.
C12_BoundedRetry ==
  dlMethod = "streamBatch" =>
    \A k \in DOMAIN dlUrls :
      /\ attempt[k] <= maxRetries
      /\ \A a \in 0..(attempt[k] - 1) : FetchOutcome(dlUrls[k], a) # "ok"
      /\ (dlPc = "resolved" /\ serves[dlUrls[k]] = "reset") =>
           /\ attempt[k] = maxRetries
           /\ ~dlResults[k].success
           /\ dlResults[k].error = FetchOutcome(dlUrls[k], maxRetries)

\* streamBatch has resolved with a URL that failed on every attempt and one
\* that succeeded on its second attempt
C12_Witness ==
  /\ dlMethod = "streamBatch"
  /\ dlPc = "resolved"
  /\ \E k, m \in DOMAIN dlUrls :
       /\ serves[dlUrls[k]] = "reset" /\ attempt[k] = maxRetries
       /\ serves[dlUrls[m]] = "flaky" /\ attempt[m] = 1
       /\ dlResults[m].success

\* C13: a URL the server answers with an HTTP error status makes streamDownload
\* fail after exactly one attempt, whatever the status code and status text.
C13_NonRetryableFailsAtOnce ==
  dlMethod = "streamBatch" =>
    \A k \in DOMAIN dlUrls :
      serves[dlUrls[k]] \in {"notFound", "gatewayTimeout"} => attempt[k] = 0

\* C14: a transfer that is reported as failed with a transient network error
\* has been retried until the retries were exhausted, in file mode as in
\* streaming mode.
C14_TransientRetried ==
  dlPc = "resolved" =>
    \A k \in DOMAIN dlResults :
      (~dlResults[k].success /\ dlResults[k].error = NetworkError)
        => attempt[k] = maxRetries

\* C36: a tracking row that is completed stays completed through every step
\* of the same run and of later runs.
C36_CompletedAbsorbing ==
  [][\A u \in DOMAIN tracking :
       tracking[u] = "completed" => tracking'[u] = "completed"]_vars

\* a run of the batched pipeline without file limit has returned and has
\* counted no failed download and no failed parse
CleanRunDone ==
  /\ pc = "done"
  /\ config.pipeline = "batched"
  /\ fileLimit = NoLimit
  /\ stats.failedFiles = 0

\* C37: re-running converges.  After a run in which every download and every
\* parse succeeded, every listed URL is completed (so that the next run has
\* nothing to download), whatever the files hold.
C37_CleanRunCompletesAll ==
  CleanRunDone => \A u \in Range(listing) : tracking[u] = "completed"

\* insertGaiaRecords has returned its count
InsertReturned ==
  IF storeCall = NoCall THEN FALSE
  ELSE storeCall.op = "insertGaiaRecords" /\ storeCall.outcome = "returned"

\* C38: the count insertGaiaRecords returns, which the coordinator adds to
\* stats.totalRecords, is the number of rows the call added to the catalog
\* table; a row that INSERT OR IGNORE ignored is not counted.
C38_CountsRowsAdded ==
  InsertReturned =>
    storeCall.insertedCount
      = BagCardinality(gaiadr3) - BagCardinality(storeCall.saved)

\* a count of getTrackingProgress that is a non-negative integer
IsCount(v) == v.type = "number" /\ v.value >= 0

\* C39: getTrackingProgress returns four non-negative integer counts with
\* total = completed + failed + pending, for every state of the tracking
\* table, the empty table included.
C39_ProgressCountsAddUp ==
  storeCall.op = "getTrackingProgress" =>
    LET p == storeCall.progress
    IN  /\ IsCount(p.total) /\ IsCount(p.completed)
        /\ IsCount(p.failed) /\ IsCount(p.pending)
        /\ p.total.value = p.completed.value + p.failed.value + p.pending.value

(***************************************************************************)
(* Properties of the cone search                                           *)
(***************************************************************************)
\* the cosine of the great-circle distance between a row and a point, in
\* hundred-millionths
CosSeparation(row, ra, dec) ==
  Sin(row.dec) * Sin(dec)
    + ((Cos(row.dec) * Cos(dec)) \div 10000) * Cos(row.ra - ra)

WithinRadius(row, ra, dec, radius) ==
  CosSeparation(row, ra, dec) >= Cos(radius) * 10000

\* C15: a cone search without magnitude range returns every stored point whose
\* great-circle distance to the query centre is at most the radius.
C15_ConeComplete ==
  (fnCall.op = "coneSearch" /\ fnCall.magnitudeLimit = NoMagnitudeLimit) =>
    \A row \in BagToSet(gaiadr3) :
      WithinRadius(row, fnCall.ra, fnCall.dec, fnCall.radius)
        => row \in fnResult

\* C16: every record a cone search returns is within the radius of the query
\* centre.
C16_ConeSound ==
  fnCall.op = "coneSearch" =>
    \A row \in fnResult :
      WithinRadius(row, fnCall.ra, fnCall.dec, fnCall.radius)

\* a search that returned a point and left out a point of its bounding box
\* that is farther than the radius
C16_Witness ==
  /\ fnCall.op = "coneSearch"
  /\ fnResult # {}
  /\ \E row \in BagToSet(gaiadr3) \ fnResult :
       /\ InBoundingBox(row, fnCall.ra, fnCall.dec, fnCall.radius)
       /\ InFluxRange(row, fnCall.magnitudeLimit)
       /\ ~WithinRadius(row, fnCall.ra, fnCall.dec, fnCall.radius)

\* the flux lies between the flux of maxMag and the flux of minMag
FluxBetween(row, limit) ==
  /\ row.phot_g_mean_flux * 1000 >= FluxOfMagnitude(limit[2])
  /\ row.phot_g_mean_flux * 1000 <= FluxOfMagnitude(limit[1])

\* C17: a cone search with a magnitude range returns exactly the points within
\* the radius whose flux lies between the flux of maxMag and the flux of minMag.
C17_MagnitudeRange ==
  (fnCall.op = "coneSearch" /\ fnCall.magnitudeLimit # NoMagnitudeLimit) =>
    fnResult = {row \in BagToSet(gaiadr3) :
                  /\ WithinRadius(row, fnCall.ra, fnCall.dec, fnCall.radius)
                  /\ FluxBetween(row, fnCall.magnitudeLimit)}

\* C32: brightnessLimitSearch returns every stored record whose G magnitude
\* lies in the range, wherever it is on the sky.
C32_BrightnessSearchComplete ==
  fnCall.op = "brightnessLimitSearch" =>
    \A row \in BagToSet(gaiadr3) :
      FluxBetween(row, fnCall.magnitudeLimit) => row \in fnResult

\* a call of run has returned or thrown, or its promise has settled
RunSettled ==
  /\ fnCall.op = "run"
  /\ fnResult.outcome \in {"returned", "threw", "resolved", "rejected"}

\* C40: when run has returned or thrown, or the promise it returned has
\* settled, every database connection it opened has been closed, and no
\* connection is closed more often than it was opened.
C40_RunClosesConnection ==
  /\ fnCall.op = "run" => fnResult.closed <= fnResult.opened
  /\ RunSettled => fnResult.closed = fnResult.opened

(***************************************************************************)
(* Properties of the record transform                                      *)
(***************************************************************************)
RECURSIVE Flatten(_)
Flatten(batches) ==
  IF batches = <<>> THEN <<>> ELSE Head(batches) \o Flatten(Tail(batches))

\* the data rows of a file, restricted to the columns kept
DataRows(lines, cols) ==
  IF lines = <<>> THEN <<>>
  ELSE [k \in 1..(Len(lines) - 1) |->
          [c \in cols \cap DOMAIN lines[k + 1] |-> lines[k + 1][c]]]

\* C18: for a file of n data rows and a chunk size c >= 1 the parser yields
\* ceil(n/c) batches, every batch but the last of exactly c rows, the last of
\* 1..c rows, and the batches concatenated are the data rows in order.
C18_BatchBoundaries ==
  (fnCall.op = "streamGzippedCSV" /\ fnResult # NoCall) =>
    LET rows == DataRows(fnCall.lines, fnCall.columnsToKeep)
        n == Len(rows)
        c == fnCall.chunkSize
        batches == fnResult.value
    IN  /\ Len(batches) = (n + c - 1) \div c
        /\ \A k \in DOMAIN batches :
             IF k < Len(batches) THEN Len(batches[k]) = c
             ELSE Len(batches[k]) \in 1..c
        /\ Flatten(batches) = rows
        /\ n = c + 1 => <<Len(batches[1]), Len(batches[2])>> = <<c, 1>>

\* a file of c + 1 data rows parsed with a chunk size c above one
C18_Witness ==
  /\ fnCall.op = "streamGzippedCSV"
  /\ fnResult # NoCall
  /\ fnCall.chunkSize > 1
  /\ Len(fnCall.lines) = fnCall.chunkSize + 2
  /\ Len(fnResult.value) = 2

\* the flux is a positive number and the magnitude is below the limit
Bright(record, limit) ==
  /\ "phot_g_mean_flux" \in DOMAIN record
  /\ record.phot_g_mean_flux.type = "number"
  /\ record.phot_g_mean_flux.value > 0
  /\ zeropoint - 2500 * Log10(record.phot_g_mean_flux.value) < limit

RECURSIVE BrightInOrder(_, _)
BrightInOrder(records, limit) ==
  IF records = <<>> THEN <<>>
  ELSE IF Bright(Head(records), limit)
         THEN <<Head(records)>> \o BrightInOrder(Tail(records), limit)
         ELSE BrightInOrder(Tail(records), limit)

\* C19: filterByMagnitude returns, in input order, exactly the records whose
\* flux is a positive number with zeropoint - 2.5 log10(flux) strictly below
\* the limit; a record with a null, missing, empty, zero or negative flux is
\* never returned.
C19_MagnitudeFilter ==
  (fnCall.op = "filterByMagnitude" /\ fnResult # NoCall) =>
    /\ fnResult.value = BrightInOrder(fnCall.records, fnCall.magnitudeLimit)
    /\ \A k \in DOMAIN fnResult.value :
         /\ Flux(fnResult.value[k]) \notin {Undefined, Null, Str(""), Num(0)}
         /\ Flux(fnResult.value[k]).value > 0

\* a list of two different bright records with a record of null flux between
\* them
C19_Witness ==
  /\ fnCall.op = "filterByMagnitude"
  /\ fnResult # NoCall
  /\ Len(fnCall.records) = 3
  /\ Flux(fnCall.records[2]) = Null
  /\ fnResult.value = <<fnCall.records[1], fnCall.records[3]>>
  /\ fnCall.records[1] # fnCall.records[3]

(***************************************************************************)
(* Properties of the insert transaction                                    *)
(***************************************************************************)
\* C20: a call of insertGaiaRecords whose statement fails leaves the table as
\* it was before the call and hands the error to the caller; a call that
\* returns has added its own rows to the table it found, and a transaction
\* never holds rows of another call.
C20_AllOrNothing ==
  (storeCall # NoCall) =>
    /\ storeCall.outcome = "threw" =>
         /\ gaiadr3 = storeCall.saved
         /\ storeCall.error = StatementError
    /\ storeCall.outcome = "returned" =>
         gaiadr3 = InsertAll(storeCall.saved, storeCall.records)
    /\ storeCall.outcome = "running" =>
         gaiadr3 = InsertAll(storeCall.saved,
                             SubSeq(storeCall.records, 1, storeCall.next - 1))

\* a call on a table that holds rows of an earlier call has failed at its
\* second statement, after its first statement had added a row
C20_Witness ==
  /\ storeCall # NoCall
  /\ storeCall.outcome = "threw"
  /\ storeCall.next = 2
  /\ storeCall.saved # EmptyBag
  /\ InsertRow(storeCall.saved, storeCall.records[1]) # storeCall.saved
(***************************************************************************)
(* Finalization, ordering and statistics of a run                          *)
(***************************************************************************)
\* populateGaiaDR3 is between its first batch and its return
Running == pc \notin {"idle", "done", "aborted"}

\* the urls of the run whose download or parse failed
FailedInRun == {u \in Range(pendingUrls) : tracking[u] = "failed"}

\* C21: per-file errors never abort the run.  Whatever files fail to
\* download or to parse, the run is never abandoned for a reason other than a
\* maintenance error, it reaches the finalization only after every pending
\* file has been handed to a batch, and a run that has started goes on to
\* print its summary and return (or stops on a maintenance error).
C21_PerFileErrorsNeverAbort ==
  /\ [](pc = "aborted" => finalization.optimizeError)
  /\ [](pc \in {"finalize", "optimize", "summary", "done"}
          => handed = Range(pendingUrls))
  /\ [](pc = "done" => finalization.printSummary = 1)
  /\ (Running ~> (pc = "done" \/ finalization.optimizeError))

\* a run of two batches has returned although a file of its first batch failed
C21_Witness ==
  /\ pc = "done"
  /\ finalization.printSummary = 1
  /\ Len(pendingUrls) > config.maxParallelDownloads
  /\ pendingUrls[1] \in FailedInRun
  /\ handed = Range(pendingUrls)

\* C22: maintenance errors are not fatal.  When an index statement fails, the
\* other statements of createIndices still run; and a run that has called
\* optimize goes on to print its summary and return, whether or not an index
\* statement or the vacuum/analyze step failed.
C22_MaintenanceNonFatal ==
  /\ [](finalization.createIndices = 1
          => finalization.indexStatements = NumIndices)
  /\ [](pc = "aborted" => ~finalization.optimizeError)
  /\ (finalization.optimize = 1 ~> pc = "done")

\* the statements of one iteration of the batch loop
InBatchLoop ==
  pc \in {"download", "process", "accumulate", "insert", "mark", "file",
          "chunks", "progress"}

\* C29: finalization happens once, after the last batch.  While the batch
\* loop runs neither createIndices nor optimize has been called; they are
\* called in this order, once each, only when every pending file has been
\* handed to a batch and the loop has left its last iteration; and the summary
\* is printed after both.
C29_FinalizeOnceAfterLastBatch ==
  /\ InBatchLoop => finalization = NotFinalized
  /\ pc = "finalize" => finalization = NotFinalized
  /\ pc = "optimize"
       => /\ finalization.createIndices = 1
          /\ finalization.optimize = 0
          /\ finalization.printSummary = 0
  /\ pc = "summary"
       => /\ finalization.createIndices = 1
          /\ finalization.optimize = 1
          /\ finalization.printSummary = 0
  /\ pc = "done"
       => /\ finalization.createIndices = 1
          /\ finalization.optimize = 1
          /\ finalization.printSummary = 1
  /\ finalization.createIndices > 0
       => /\ i >= Len(pendingUrls)
          /\ handed = Range(pendingUrls)

\* a run of two batches is about to print its summary: both maintenance calls
\* have been made once, after the second batch
C29_Witness ==
  /\ pc = "summary"
  /\ Len(pendingUrls) > config.maxParallelDownloads
  /\ i >= Len(pendingUrls)
  /\ finalization.createIndices = 1
  /\ finalization.optimize = 1

\* the urls of the batches before the one that starts at index i
EarlierBatches == Range(Slice(pendingUrls, 0, i))

FirstRunDone ==
  /\ pc = "done"
  /\ runs = 1
  /\ listing = PlainListing
  /\ config.pipeline = "batched"

\* C30: the statistics count the status marks.  At the end of a first run
\* failedFiles is the number of files marked failed, completedFiles the
\* number marked completed, and their sum is at most the number of files
\* attempted.
C30_StatsCountMarks ==
  FirstRunDone =>
    /\ stats.failedFiles
         = Cardinality({u \in handed : tracking[u] = "failed"})
    /\ stats.completedFiles
         = Cardinality({u \in handed : tracking[u] = "completed"})
    /\ stats.completedFiles + stats.failedFiles <= Cardinality(handed)

(***************************************************************************)
(* Properties of the crossmatch and photometry ingestion                   *)
(***************************************************************************)
\* C23: the crossmatch referential filter.  Every row of the crossmatch table
\* has a Gaia source id of the catalog table, and a row that a step adds has
\* an id that was in the catalog table before the step.
C23_ReferentialFilter ==
  /\ [](\A r \in tmass_xmatch : r.gaiadr3_source_id \in CatalogIds(gaiadr3))
  /\ [][\A r \in tmass_xmatch' \ tmass_xmatch :
          r.gaiadr3_source_id \in CatalogIds(gaiadr3)]_vars

\* the first crossmatch file has been ingested into a populated catalog: the
\* row of source 1 was created, the row of source 2, which the catalog does
\* not hold, was not
C23_Witness ==
  /\ 1 \in DOMAIN trackingXmatch
  /\ trackingXmatch[1] = "completed"
  /\ \E r \in tmass_xmatch : r.gaiadr3_source_id = 1
  /\ ~\E r \in tmass_xmatch : r.gaiadr3_source_id = 2

\* the stored value of a band read from the text of its field
ExpectedBand(text) == IF text \in {"12.5", "9"} THEN ParseFloat(text) ELSE Null

\* the photometry file that the step has just ingested, if any
JustIngested(url) ==
  /\ cmd.stages # <<>>
  /\ Head(cmd.stages) = "tmass"
  /\ cmd.k = url
  /\ ~IsFileProcessed(trackingTmass, url)
  /\ IsFileProcessed(trackingTmass', url)

\* C24: photometry rows.  Every row of the photometry table carries the pair
\* of ids of a crossmatch row, no two rows share a Gaia id, and its bands are
\* numbers or null; and when a photometry file is ingested, every line of it
\* that has its source id and a crossmatch has a row afterwards, the row
\* created for it holding null for each band the line lacks.
C24_PhotometryRows ==
  /\ [](/\ \A r \in tmass : \E x \in tmass_xmatch :
              /\ x.gaiadr3_source_id = r.gaiadr3_source_id
              /\ x.tmass_source_id = r.tmass_source_id
        /\ \A r1, r2 \in tmass :
              r1.gaiadr3_source_id = r2.gaiadr3_source_id => r1 = r2
        /\ \A r \in tmass : \A v \in {r.j_m, r.h_m, r.k_m} :
              v.type \in {"number", "null"})
  /\ [][\A url \in TmassUrls : JustIngested(url) =>
          \A n \in DOMAIN TmassArchive[url] :
            LET line == TmassArchive[url][n]
            IN  (/\ line.cols >= minColumns
                 /\ line.tmass_source_id # ""
                 /\ \E x \in tmass_xmatch :
                      x.tmass_source_id = line.tmass_source_id)
                  => \E r \in tmass' :
                       /\ r.tmass_source_id = line.tmass_source_id
                       /\ r \notin tmass =>
                            /\ r.j_m = ExpectedBand(line.j_m)
                            /\ r.h_m = ExpectedBand(line.h_m)
                            /\ r.k_m = ExpectedBand(line.k_m)]_vars

\* a source with one band present and two bands absent has its row
C24_Witness ==
  \E r \in tmass :
    /\ r.tmass_source_id = "t1"
    /\ r.j_m = Num(12500)
    /\ r.h_m = Null
    /\ r.k_m = Null

\* C25: the ordering dependency.  A crossmatch file is marked completed only
\* in a store on which the ingestion of the primary catalog has been run.
C25_CrossmatchAfterCatalog ==
  \A f \in DOMAIN trackingXmatch :
    trackingXmatch[f] = "completed" => gaiaPopulated

(***************************************************************************)
(* Properties of the field conversion and of the configuration             *)
(***************************************************************************)
\* the texts that are neither a number nor one of the words the parser knows
Unparseable == {"", "abc"}

\* C26: a value that cannot be parsed is stored as null.  For a numeric
\* column, the stored value of an empty or non-numeric field is null, no
\* stored value is a text, and the insert raises no error.
C26_UnparseableStoredAsNull ==
  (fnCall.op = "parseGaiaRecord" /\ fnResult # NoCall
     /\ fnCall.column \notin stringColumns)
    => /\ fnCall.text \in Unparseable => fnResult.value.stored = Null
       /\ fnResult.value.stored.type # "string"
       /\ ~fnResult.value.threw

\* parseConfig has returned
ConfigParsed == fnCall.op = "parseConfig" /\ fnResult # NoCall

\* calculateSafeParallelism(2) on the machine of the call
SafeParallel == CalculateSafeParallelism(2, fnCall.availableGB)

\* C27 as stated: in streaming mode the parallelism is at most the memory-safe
\* value whether or not --parallel was passed, and in every mode it is between
\* 1 and 50.
C27_ParallelismAsStated ==
  ConfigParsed =>
    /\ fnResult.value \in 1..50
    /\ fnCall.stream => fnResult.value <= SafeParallel

\* C27 amended: in every mode the parallelism is between 1 and 50 whatever
\* --parallel holds; in streaming mode without --parallel it is the
\* memory-safe value, which is between 1 and 10; with --parallel it is the
\* value passed, brought into 1..50, in streaming mode too, and the default
\* when the value passed is no number.
C27_ParallelismBounds ==
  ConfigParsed =>
    /\ fnResult.value \in 1..50
    /\ (fnCall.stream /\ fnCall.parallel = Undefined)
         => fnResult.value = SafeParallel /\ SafeParallel \in 1..10
    /\ fnCall.parallel = Str("abc") => fnResult.value = defaultParallel
    /\ fnCall.parallel.type = "number"
         => fnResult.value =
              (IF fnCall.parallel.value < 1 THEN 1
               ELSE IF fnCall.parallel.value > 50 THEN 50
               ELSE fnCall.parallel.value)

\* a streaming run without --parallel on a machine with little memory uses
\* fewer downloads than the default, and a zero --parallel becomes 1
C27_Witness ==
  /\ ConfigParsed
  /\ \/ /\ fnCall.stream
        /\ fnCall.parallel = Undefined
        /\ fnCall.availableGB = 8
        /\ fnResult.value = 3
     \/ /\ fnCall.parallel = Num(0)
        /\ ~fnCall.stream
        /\ fnResult.value = 1

\* C31: --csv-chunks controls the batch size of the parser.  The csvChunkSize
\* of the configuration is the value given (100000 when the option is absent)
\* and no batch the parser yields with it has more rows than that.
C31_CsvChunksBoundsBatches ==
  (fnCall.op = "csvChunks" /\ fnResult # NoCall) =>
    /\ fnResult.value.csvChunkSize = fnCall.csvChunks
    /\ \A n \in DOMAIN fnResult.value.batches :
         Len(fnResult.value.batches[n]) <= fnCall.csvChunks.value

====
